---- MODULE Spec2Model ----
(***************************************************************************)
(* Petrol: a schema DSL compiled to an IR (petrol-core/src/schema.rs), to  *)
(* CREATE TABLE text (petrol-core/src/sql.rs) and to Rust source           *)
(* (petrol-codegen/src/lib.rs), with the tree-to-IR converter of           *)
(* petrol-parser/src/lib.rs.  Text is modelled as TLA+ strings, handled    *)
(* character by character where the code does so.                          *)
(***************************************************************************)
EXTENDS Integers, Sequences, FiniteSets, TLC

(***************************************************************************)
(* Bounds of the model.                                                    *)
(***************************************************************************)
MaxModels == 2
MaxFields == 2

(***************************************************************************)
(* Option and Result.                                                      *)
(***************************************************************************)
None == <<>>
Some(v) == <<v>>
IsSome(o) == o # <<>>
Unwrap(o) == o[1]

Ok(v) == [ok |-> TRUE, val |-> <<v>>, err |-> <<>>]
Err(kind, msg) == [ok |-> FALSE, val |-> <<>>, err |-> <<kind, msg>>]
Value(r) == r.val[1]

(***************************************************************************)
(* str primitives of the Rust standard library used by the converter.     *)
(***************************************************************************)
Front(s) == SubSeq(s, 1, Len(s) - 1)
IsWs(c) == c = " " \/ c = "\t" \/ c = "\n"

Char(s, i) == SubSeq(s, i, i)
Least(S) == CHOOSE i \in S : \A j \in S : i <= j
Greatest(S) == CHOOSE i \in S : \A j \in S : j <= i

\* s from its first character that is not c on
TrimStartMatches(s, c) ==
  IF \A i \in 1..Len(s) : Char(s, i) = c THEN ""
  ELSE SubSeq(s, Least({i \in 1..Len(s) : Char(s, i) # c}), Len(s))

\* s up to its last character that is not c
TrimEndMatches(s, c) ==
  IF \A i \in 1..Len(s) : Char(s, i) = c THEN ""
  ELSE SubSeq(s, 1, Greatest({i \in 1..Len(s) : Char(s, i) # c}))

TrimMatches(s, c) == TrimEndMatches(TrimStartMatches(s, c), c)

TrimStart(s) ==
  IF \A i \in 1..Len(s) : IsWs(Char(s, i)) THEN ""
  ELSE SubSeq(s, Least({i \in 1..Len(s) : ~IsWs(Char(s, i))}), Len(s))

TrimEnd(s) ==
  IF \A i \in 1..Len(s) : IsWs(Char(s, i)) THEN ""
  ELSE SubSeq(s, 1, Greatest({i \in 1..Len(s) : ~IsWs(Char(s, i))}))

Trim(s) == TrimEnd(TrimStart(s))

StartsWith(s, p) == Len(s) >= Len(p) /\ SubSeq(s, 1, Len(p)) = p
EndsWith(s, p) == Len(s) >= Len(p) /\ SubSeq(s, Len(s) - Len(p) + 1, Len(s)) = p
Contains(s, p) == \E i \in 1..(Len(s) - Len(p) + 1) : SubSeq(s, i, i + Len(p) - 1) = p

\* position of the first occurrence of p in s from position i on, 0 when absent
Find(s, p, i) ==
  IF \E j \in i..(Len(s) - Len(p) + 1) : SubSeq(s, j, j + Len(p) - 1) = p
  THEN Least({j \in i..(Len(s) - Len(p) + 1) : SubSeq(s, j, j + Len(p) - 1) = p})
  ELSE 0

\* str::replace: non-overlapping occurrences, left to right
RECURSIVE Replace(_, _, _)
Replace(s, from, to) ==
  IF Find(s, from, 1) = 0 THEN s
  ELSE SubSeq(s, 1, Find(s, from, 1) - 1) \o to \o
       Replace(SubSeq(s, Find(s, from, 1) + Len(from), Len(s)), from, to)

\* str::split: always at least one piece
RECURSIVE Split(_, _)
Split(s, c) ==
  IF Find(s, c, 1) = 0 THEN <<s>>
  ELSE <<SubSeq(s, 1, Find(s, c, 1) - 1)>> \o Split(SubSeq(s, Find(s, c, 1) + 1, Len(s)), c)

\* [String]::join
RECURSIVE Join(_, _)
Join(ss, sep) ==
  IF Len(ss) = 0 THEN ""
  ELSE IF Len(ss) = 1 THEN ss[1]
  ELSE ss[1] \o sep \o Join(Tail(ss), sep)

Digits == <<"0", "1", "2", "3", "4", "5", "6", "7", "8", "9">>
IsDigit(c) == \E d \in 1..10 : Digits[d] = c
DigitVal(c) == (CHOOSE d \in 1..10 : Digits[d] = c) - 1

AllDigits(s) == \A i \in 1..Len(s) : IsDigit(Char(s, i))

RECURSIVE DigitsVal(_, _)
DigitsVal(s, acc) ==
  IF Len(s) = 0 THEN acc ELSE DigitsVal(Tail(s), acc * 10 + DigitVal(Head(s)))

RECURSIVE NatToString(_)
NatToString(n) ==
  IF n < 10 THEN Digits[n + 1] ELSE NatToString(n \div 10) \o Digits[(n % 10) + 1]

\* <i64 as Display>::fmt
IntToString(n) == IF n < 0 THEN "-" \o NatToString(0 - n) ELSE NatToString(n)

\* str::parse::<i64>: optional sign, then at least one digit.  The literals of
\* the model have at most 9 digits, so the overflow error of parse never arises.
ParseI64(s) ==
  LET signed == Len(s) > 0 /\ (Head(s) = "-" \/ Head(s) = "+")
      body == IF signed THEN Tail(s) ELSE s
      mag == DigitsVal(body, 0)
  IN IF Len(body) = 0 \/ ~AllDigits(body) THEN None
     ELSE Some(IF signed /\ Head(s) = "-" THEN 0 - mag ELSE mag)

\* str::parse::<u32>: optional plus sign, then at least one digit
ParseU32(s) ==
  LET body == IF Len(s) > 0 /\ Head(s) = "+" THEN Tail(s) ELSE s
  IN IF Len(body) = 0 \/ ~AllDigits(body) THEN None
     ELSE Some(DigitsVal(body, 0))

\* An f64 with a short decimal expansion: (-1)^neg * mant / 10^scale, with
\* mant not a multiple of 10 unless scale = 0.
RECURSIVE Pow10(_)
Pow10(n) == IF n = 0 THEN 1 ELSE 10 * Pow10(n - 1)

\* str::parse::<f64> on the decimal forms [sign] digits [. digits]
ParseF64(s) ==
  LET signed == Len(s) > 0 /\ (Head(s) = "-" \/ Head(s) = "+")
      body == IF signed THEN Tail(s) ELSE s
      dot == Find(body, ".", 1)
      ip == IF dot = 0 THEN body ELSE SubSeq(body, 1, dot - 1)
      fp == IF dot = 0 THEN "" ELSE TrimEndMatches(SubSeq(body, dot + 1, Len(body)), "0")
      raw == IF dot = 0 THEN "" ELSE SubSeq(body, dot + 1, Len(body))
  IN IF Len(ip) + Len(raw) = 0 \/ ~AllDigits(ip) \/ ~AllDigits(raw) THEN None
     ELSE Some([neg |-> signed /\ Head(s) = "-",
                mant |-> DigitsVal(ip \o fp, 0), scale |-> Len(fp)])

RECURSIVE ZeroPad(_, _)
ZeroPad(s, n) == IF Len(s) >= n THEN s ELSE ZeroPad("0" \o s, n)

\* <f64 as Display>::fmt: no fractional part is written for a whole number
FloatToString(v) ==
  (IF v.neg THEN "-" ELSE "") \o NatToString(v.mant \div Pow10(v.scale)) \o
  (IF v.scale = 0 THEN ""
   ELSE "." \o ZeroPad(NatToString(v.mant % Pow10(v.scale)), v.scale))

(***************************************************************************)
(* The schema IR of petrol-core/src/schema.rs.                             *)
(*   Schema          [datasource, generator, models]                       *)
(*   DatasourceBlock [name, provider, url, raw_url, connection_limit,      *)
(*                    pool_timeout_seconds]                                *)
(*   GeneratorBlock  [name, provider, output]                              *)
(*   Model           [name, fields, attributes]                            *)
(*   Field           [name, type, attributes]                              *)
(*   FieldType       [tag: "Scalar", scalar, modifiers] or                 *)
(*                   [tag: "Relation", info: [model, modifiers, attributes]]*)
(*   FieldAttribute  [tag: "Id" | "Unique" | "UpdatedAt"],                 *)
(*                   [tag: "Map", name], [tag: "Relation", attr],          *)
(*                   [tag: "Default", value]                               *)
(*   DefaultValue    [tag: "AutoIncrement" | "Uuid" | "Now"],              *)
(*                   [tag: "Boolean" | "Int" | "Float" | "String", v]      *)
(*   ModelAttribute  [tag: "Map", name], [tag: "Unique" | "Index", fields] *)
(***************************************************************************)
ScalarTypes ==
  <<"ScalarType::Int", "ScalarType::BigInt", "ScalarType::Float",
    "ScalarType::Decimal", "ScalarType::String", "ScalarType::Boolean",
    "ScalarType::DateTime", "ScalarType::Date", "ScalarType::Uuid",
    "ScalarType::Json", "ScalarType::Bytes">>

TypeModifiers(optional, list) == [optional |-> optional, list |-> list]
TypeModifiers_default == TypeModifiers(FALSE, FALSE)

Scalar(scalar, modifiers) == [tag |-> "Scalar", scalar |-> scalar, modifiers |-> modifiers]
Relation(info) == [tag |-> "Relation", info |-> info]
RelationInfo(model, modifiers, attributes) ==
  [model |-> model, modifiers |-> modifiers, attributes |-> attributes]

AttrId == [tag |-> "Id"]
AttrUnique == [tag |-> "Unique"]
AttrUpdatedAt == [tag |-> "UpdatedAt"]
AttrMap(name) == [tag |-> "Map", name |-> name]
AttrRelation(fields, references) ==
  [tag |-> "Relation", attr |-> [fields |-> fields, references |-> references]]
AttrDefault(value) == [tag |-> "Default", value |-> value]

AutoIncrement == [tag |-> "AutoIncrement"]
DefaultUuid == [tag |-> "Uuid"]
DefaultNow == [tag |-> "Now"]
DefaultBoolean(v) == [tag |-> "Boolean", v |-> v]
DefaultInt(v) == [tag |-> "Int", v |-> v]
DefaultFloat(v) == [tag |-> "Float", v |-> v]
DefaultString(v) == [tag |-> "String", v |-> v]

ModelMap(name) == [tag |-> "Map", name |-> name]
ModelUnique(fields) == [tag |-> "Unique", fields |-> fields]
ModelIndex(fields) == [tag |-> "Index", fields |-> fields]

Field(name, type, attributes) == [name |-> name, type |-> type, attributes |-> attributes]
Model(name, fields, attributes) == [name |-> name, fields |-> fields, attributes |-> attributes]

\* DatasourceBlock::new
DatasourceBlock_new(provider) ==
  [name |-> "db", provider |-> provider, url |-> None, raw_url |-> None,
   connection_limit |-> None, pool_timeout_seconds |-> None]

\* GeneratorBlock::new
GeneratorBlock_new(provider) == [name |-> "client", provider |-> provider, output |-> None]

\* f.attributes.iter().any(|a| matches!(a, FieldAttribute::<tag>))
HasAttr(field, tag) == \E i \in 1..Len(field.attributes) : field.attributes[i].tag = tag

\* Model::validate with its two checks in the other order
Model_validate_IdFirst(model) ==
  IF ~(\E i \in 1..Len(model.fields) : HasAttr(model.fields[i], "Id"))
  THEN Err("Validation", "model " \o model.name \o " must declare an @id field")
  ELSE IF Len(model.fields) = 0
  THEN Err("Validation", "model " \o model.name \o " must contain at least one field")
  ELSE Ok("unit")

\* Model::validate
Model_validate(model) ==
  IF Len(model.fields) = 0
  THEN Err("Validation", "model " \o model.name \o " must contain at least one field")
  ELSE IF ~(\E i \in 1..Len(model.fields) : HasAttr(model.fields[i], "Id"))
  THEN Err("Validation", "model " \o model.name \o " must declare an @id field")
  ELSE Ok("unit")

RECURSIVE ValidateModels(_, _)
\* the loop of Schema::validate running to the end and keeping the last failure
RECURSIVE ValidateModels_Last(_, _)
ValidateModels_Last(models, i) ==
  IF i > Len(models) THEN Ok("unit")
  ELSE IF ~ValidateModels_Last(models, i + 1).ok THEN ValidateModels_Last(models, i + 1)
  ELSE Model_validate(models[i])

\* the loop of Schema::validate: the first model whose validate fails ends it
ValidateModels(models, i) ==
  IF i > Len(models) THEN Ok("unit")
  ELSE IF ~Model_validate(models[i]).ok THEN Model_validate(models[i])
  ELSE ValidateModels(models, i + 1)

\* Schema::validate
Schema_validate(schema) ==
  IF Len(schema.models) = 0
  THEN Err("Validation", "schema must contain at least one model")
  ELSE ValidateModels(schema.models, 1)

\* the first Map attribute of a list, if any
RECURSIVE FirstMap(_, _)
FirstMap(attributes, i) ==
  IF i > Len(attributes) THEN None
  ELSE IF attributes[i].tag = "Map" THEN Some(attributes[i].name)
  ELSE FirstMap(attributes, i + 1)

\* Model::table_name
table_name(model) ==
  IF IsSome(FirstMap(model.attributes, 1)) THEN Unwrap(FirstMap(model.attributes, 1))
  ELSE model.name

\* Field::column_name
column_name(field) ==
  IF IsSome(FirstMap(field.attributes, 1)) THEN Unwrap(FirstMap(field.attributes, 1))
  ELSE field.name

\* FieldType::modifiers
modifiers(type) == IF type.tag = "Scalar" THEN type.modifiers ELSE type.info.modifiers

\* TypeModifiers::optional_suffix, TypeModifiers::list_suffix
optional_suffix(m) == IF m.optional THEN "?" ELSE ""
list_suffix(m) == IF m.list THEN "[]" ELSE ""

\* impl Display for ScalarType
ScalarIdents ==
  <<"Int", "BigInt", "Float", "Decimal", "String", "Boolean", "DateTime",
    "Date", "Uuid", "Json", "Bytes">>
ScalarType_fmt(scalar) == ScalarIdents[CHOOSE i \in 1..Len(ScalarTypes) : ScalarTypes[i] = scalar]

\* impl Display for FieldType
FieldType_fmt(type) ==
  IF type.tag = "Scalar"
  THEN ScalarType_fmt(type.scalar) \o optional_suffix(type.modifiers) \o list_suffix(type.modifiers)
  ELSE type.info.model \o optional_suffix(type.info.modifiers) \o list_suffix(type.info.modifiers)

\* impl Display for DefaultValue
DefaultValue_fmt(value) ==
  CASE value.tag = "AutoIncrement" -> "autoincrement()"
    [] value.tag = "Uuid" -> "uuid()"
    [] value.tag = "Now" -> "now()"
    [] value.tag = "Boolean" -> (IF value.v THEN "true" ELSE "false")
    [] value.tag = "Int" -> IntToString(value.v)
    [] value.tag = "Float" -> FloatToString(value.v)
    [] value.tag = "String" -> "\"" \o value.v \o "\""

\* impl Display for FieldAttribute
FieldAttribute_fmt(a) ==
  CASE a.tag = "Id" -> "@id"
    [] a.tag = "Unique" -> "@unique"
    [] a.tag = "UpdatedAt" -> "@updatedAt"
    [] a.tag = "Map" -> "@map(\"" \o a.name \o "\")"
    [] a.tag = "Relation" ->
         "@relation(fields: [" \o Join(a.attr.fields, ", ") \o "], references: [" \o
         Join(a.attr.references, ", ") \o "])"
    [] a.tag = "Default" -> "@default(" \o DefaultValue_fmt(a.value) \o ")"

\* impl Display for ModelAttribute
ModelAttribute_fmt(a) ==
  CASE a.tag = "Map" -> "@@map(\"" \o a.name \o "\")"
    [] a.tag = "Unique" -> "@@unique([" \o Join(a.fields, ", ") \o "])"
    [] a.tag = "Index" -> "@@index([" \o Join(a.fields, ", ") \o "])"

\* impl Display for Field
RECURSIVE FieldAttrs_fmt(_, _)
FieldAttrs_fmt(attributes, i) ==
  IF i > Len(attributes) THEN ""
  ELSE " " \o FieldAttribute_fmt(attributes[i]) \o FieldAttrs_fmt(attributes, i + 1)

Field_fmt(field) ==
  field.name \o " " \o FieldType_fmt(field.type) \o FieldAttrs_fmt(field.attributes, 1)

(***************************************************************************)
(* DSL text.  A document is the sequence of its blocks, each with the      *)
(* keyword that opens it, its name and the lines between its braces.       *)
(***************************************************************************)
Block(rule, name, body) == [rule |-> rule, name |-> name, body |-> body]

\* impl Display for Schema
Schema_fmt(schema) ==
  LET ds == schema.datasource
      gen == schema.generator
  IN <<Block("datasource", ds.name,
         <<"  provider = \"" \o ds.provider \o "\"">> \o
         (IF IsSome(ds.raw_url) THEN <<"  url      = " \o Unwrap(ds.raw_url)>>
          ELSE <<"  url      = env(\"DATABASE_URL\")">>) \o
         (IF IsSome(ds.connection_limit)
          THEN <<"  connectionLimit = " \o NatToString(Unwrap(ds.connection_limit))>>
          ELSE <<>>) \o
         (IF IsSome(ds.pool_timeout_seconds)
          THEN <<"  poolTimeout     = " \o NatToString(Unwrap(ds.pool_timeout_seconds))>>
          ELSE <<>>)),
       Block("generator", gen.name,
         <<"  provider = \"" \o gen.provider \o "\"">> \o
         (IF IsSome(gen.output) THEN <<"  output   = \"" \o Unwrap(gen.output) \o "\"">>
          ELSE <<>>))>> \o
     [m \in 1..Len(schema.models) |->
        Block("model", schema.models[m].name,
          [f \in 1..Len(schema.models[m].fields) |->
             "  " \o Field_fmt(schema.models[m].fields[f])] \o
          [a \in 1..Len(schema.models[m].attributes) |->
             "  " \o ModelAttribute_fmt(schema.models[m].attributes[a])])]

(***************************************************************************)
(* The grammar layer (schema.pest, section 4.1 of the specification):      *)
(*   block := keyword identifier { entries }      entry := key = value     *)
(*   field := identifier type-expression attribute*                        *)
(*   type-expression := identifier, optional ?, optional []                *)
(*   attribute := @identifier, optional parenthesized argument text        *)
(* It yields the tree of pairs the converter walks; as_str() of the        *)
(* argument pair of an attribute is the argument text with its parentheses.*)
(***************************************************************************)
IdentChars == "abcdefghijklmnopqrstuvwxyzABCDEFGHIJKLMNOPQRSTUVWXYZ0123456789_"

IdentCharSet == {Char(IdentChars, i) : i \in 1..Len(IdentChars)}
AllIdentChars(s) == \A i \in 1..Len(s) : Char(s, i) \in IdentCharSet

IsIdent(s) == Len(s) > 0 /\ AllIdentChars(s)

\* the positions of the quotes of s that open or close a string literal
Quotes(s) == {i \in 1..Len(s) : Char(s, i) = "\"" /\ (i = 1 \/ Char(s, i - 1) # "\\")}

\* position i of a line with the quotes qs lies inside a string literal
Quoted(qs, i) == Cardinality({j \in qs : j < i}) % 2 = 1

\* the positions of the parenthesis c of s outside string literals
Parens(s, c) ==
  LET Outside(qs) == {i \in 1..Len(s) : Char(s, i) = c /\ ~Quoted(qs, i)}
  IN Outside(Quotes(s))

\* the number of parentheses open before position i
Depth(opens, closes, i) ==
  Cardinality({j \in opens : j < i}) - Cardinality({j \in closes : j < i})

\* the white space of s outside parentheses and outside string literals
Breaks(s) ==
  LET At(qs, opens, closes) ==
        {i \in 1..Len(s) : IsWs(Char(s, i)) /\ Depth(opens, closes, i) = 0 /\ ~Quoted(qs, i)}
  IN At(Quotes(s), Parens(s, "("), Parens(s, ")"))

\* the pieces of a line between the breaks of the line, in order
Tokens(s) ==
  LET Cut(breaks, starts) ==
        [k \in 1..Cardinality(starts) |->
           LET From(i) == SubSeq(s, i, Least({j \in breaks \cup {Len(s) + 1} : j > i}) - 1)
           IN From(CHOOSE i \in starts : Cardinality({j \in starts : j < i}) = k - 1)]
      Of(breaks) ==
        Cut(breaks, {i \in 1..Len(s) : i \notin breaks /\ (i = 1 \/ (i - 1) \in breaks)})
  IN Of(Breaks(s))

\* s is an argument list: its first parenthesis is closed by its last character
IsArgs(s) ==
  LET Closed(opens, closes) ==
        /\ Depth(opens, closes, Len(s) + 1) = 0
        /\ \A i \in 2..Len(s) : Depth(opens, closes, i) > 0
  IN StartsWith(s, "(") /\ Closed(Parens(s, "("), Parens(s, ")"))

\* attribute rule on the text after the @ (or @@): [ident, args]
attribute_rule(text) ==
  LET Build(open, ident, rest) ==
        IF ~IsIdent(ident) \/ (open > 0 /\ ~IsArgs(rest)) THEN None
        ELSE Some([ident |-> ident, args |-> IF open = 0 THEN None ELSE Some(rest)])
      At(open) == Build(open, IF open = 0 THEN text ELSE SubSeq(text, 1, open - 1),
                        IF open = 0 THEN "" ELSE SubSeq(text, open, Len(text)))
  IN At(Find(text, "(", 1))

\* type-expression rule: [ident, tokens]
type_rule(text) ==
  LET Build(ident, o, l) ==
        IF ~IsIdent(ident) THEN None
        ELSE Some([ident |-> ident,
                   tokens |-> (IF o THEN <<"optional">> ELSE <<>>) \o
                              (IF l THEN <<"list">> ELSE <<>>)])
      Optional(t1, o, l) == Build(IF o THEN Front(t1) ELSE t1, o, l)
      List(t1, l) == Optional(t1, EndsWith(t1, "?"), l)
      Of(l) == List(IF l THEN SubSeq(text, 1, Len(text) - 2) ELSE text, l)
  IN Of(EndsWith(text, "[]"))

\* field rule on a line of a model block
field_rule(line) ==
  LET Build(toks, type, attrs) ==
        IF Len(toks) < 2 \/ ~IsIdent(toks[1]) \/ ~IsSome(type)
           \/ (\E i \in 1..Len(attrs) : ~IsSome(attrs[i])) THEN None
        ELSE Some([rule |-> "field", name |-> toks[1], type |-> Unwrap(type),
                   attributes |-> [i \in 1..Len(attrs) |-> Unwrap(attrs[i])]])
      Of(toks) ==
        Build(toks, type_rule(toks[2]),
              [i \in 1..(Len(toks) - 2) |->
                 IF StartsWith(toks[i + 2], "@") THEN attribute_rule(Tail(toks[i + 2]))
                 ELSE None])
  IN Of(Tokens(line))

\* model_attribute rule on a line of a model block
model_attribute_rule(line) ==
  LET Attribute(text, a) ==
        IF ~StartsWith(text, "@@") \/ ~IsSome(a) THEN None
        ELSE Some([rule |-> "model_attribute", ident |-> Unwrap(a).ident,
                   args |-> Unwrap(a).args])
      Of(text) == Attribute(text, attribute_rule(SubSeq(text, 3, Len(text))))
  IN Of(Trim(line))

\* a line of a model block is a model attribute or a field
item_rule(line) ==
  IF StartsWith(Trim(line), "@@") THEN model_attribute_rule(line) ELSE field_rule(line)

\* value rule of an entry: an env call, a string literal or a number
value_rule(text) ==
  IF StartsWith(text, "env(") /\ EndsWith(text, ")")
  THEN LET Call(inner) ==
              IF StartsWith(inner, "\"") /\ EndsWith(inner, "\"") /\ Len(inner) >= 2
              THEN Some([rule |-> "env_call", text |-> text, inner |-> Some(inner)])
              ELSE None
       IN Call(Trim(SubSeq(text, 5, Len(text) - 1)))
  ELSE IF StartsWith(text, "\"") /\ EndsWith(text, "\"") /\ Len(text) >= 2
  THEN Some([rule |-> "string", text |-> text, inner |-> None])
  ELSE IF Len(text) > 0 /\ AllDigits(text)
  THEN Some([rule |-> "number", text |-> text, inner |-> None])
  ELSE None

\* entry rule on a line of a datasource or generator block: [key, value]
entry_rule(line) ==
  LET Pair(eq, key, value) ==
        IF eq = 0 \/ ~IsIdent(key) \/ ~IsSome(value) THEN None
        ELSE Some([key |-> key, value |-> value])
      At(eq) == Pair(eq, Trim(SubSeq(line, 1, eq - 1)),
                     value_rule(Trim(SubSeq(line, eq + 1, Len(line)))))
  IN At(Find(line, "=", 1))

block_rule(block) ==
  LET Collect(inner) ==
        IF ~IsIdent(block.name) \/ (\E i \in 1..Len(inner) : ~IsSome(inner[i])) THEN None
        ELSE Some([rule |-> block.rule, name |-> block.name,
                   inner |-> [i \in 1..Len(inner) |-> Unwrap(inner[i])]])
  IN Collect([i \in 1..Len(block.body) |->
                IF block.rule = "model" THEN item_rule(block.body[i])
                ELSE entry_rule(block.body[i])])

\* PetrolDslParser::parse(Rule::schema, input)
PetrolDslParser_parse(input) ==
  LET Collect(pairs) ==
        IF \E i \in 1..Len(pairs) : ~IsSome(pairs[i])
        THEN Err("Pest", "syntax error")
        ELSE Ok([i \in 1..Len(pairs) |-> Unwrap(pairs[i])])
  IN Collect([i \in 1..Len(input) |-> block_rule(input[i])])

(***************************************************************************)
(* The tree-to-IR converter of petrol-parser/src/lib.rs.                   *)
(***************************************************************************)
\* trim_parens
trim_parens(value) == Trim(TrimEndMatches(TrimStartMatches(Trim(value), "("), ")"))

\* unquote
unquote(value) ==
  Replace(TrimEndMatches(TrimStartMatches(Trim(value), "\""), "\""), "\\\"", "\"")

\* parse_env_call
parse_env_call(pair) ==
  IF IsSome(pair.inner) THEN unquote(Unwrap(pair.inner)) ELSE "DATABASE_URL"

\* parse_string
parse_string(pair) ==
  IF IsSome(pair) THEN Ok(unquote(Unwrap(pair).text))
  ELSE Err("Validation", "expected string")

\* parse_field_list
RECURSIVE FieldListItems(_, _)
FieldListItems(items, i) ==
  IF i > Len(items) THEN <<>>
  ELSE (IF Trim(items[i]) = "" THEN <<>> ELSE <<TrimMatches(Trim(items[i]), "\"")>>) \o
       FieldListItems(items, i + 1)

parse_field_list(raw) ==
  FieldListItems(Split(TrimEndMatches(TrimStartMatches(Trim(raw), "["), "]"), ","), 1)

\* parse_relation_attribute
RECURSIVE RelationSegments(_, _, _)
RelationSegments(segments, i, acc) ==
  IF i > Len(segments) THEN acc
  ELSE LET parts == Split(segments[i], ":")
           key == Trim(parts[1])
           value == Trim(parts[2])
       IN IF Len(parts) < 2 THEN RelationSegments(segments, i + 1, acc)
          ELSE IF key = "fields"
          THEN RelationSegments(segments, i + 1, [acc EXCEPT !.fields = parse_field_list(value)])
          ELSE IF key = "references"
          THEN RelationSegments(segments, i + 1,
                                [acc EXCEPT !.references = parse_field_list(value)])
          ELSE RelationSegments(segments, i + 1, acc)

parse_relation_attribute(raw) ==
  Ok(RelationSegments(Split(raw, ","), 1, [fields |-> <<>>, references |-> <<>>]))

\* parse_default
parse_default(raw) ==
  LET FromF64(value) == IF IsSome(value) THEN Ok(DefaultFloat(Unwrap(value)))
                        ELSE Err("Validation", "invalid float default")
      FromI64(value) == IF IsSome(value) THEN Ok(DefaultInt(Unwrap(value)))
                        ELSE Err("Validation", "invalid int default")
      Match(trimmed) ==
        IF EndsWith(trimmed, "()")
        THEN CASE trimmed = "autoincrement()" -> Ok(AutoIncrement)
               [] trimmed = "uuid()" -> Ok(DefaultUuid)
               [] trimmed = "now()" -> Ok(DefaultNow)
               [] OTHER -> Err("Unsupported", "unknown default " \o trimmed)
        ELSE IF StartsWith(trimmed, "\"") THEN Ok(DefaultString(unquote(trimmed)))
        ELSE IF trimmed = "true" \/ trimmed = "false" THEN Ok(DefaultBoolean(trimmed = "true"))
        ELSE IF Contains(trimmed, ".") THEN FromF64(ParseF64(trimmed))
        ELSE FromI64(ParseI64(trimmed))
  IN Match(Trim(raw))

\* Option::unwrap_or_default on an Option<String>
UnwrapOrDefault(o) == IF IsSome(o) THEN Unwrap(o) ELSE ""

\* parse_field_attribute
parse_field_attribute(pair) ==
  LET Default(value) == IF value.ok THEN Ok(AttrDefault(Value(value))) ELSE value
      Match(ident, args) ==
        CASE ident = "id" -> Ok(AttrId)
          [] ident = "unique" -> Ok(AttrUnique)
          [] ident = "updatedAt" -> Ok(AttrUpdatedAt)
          [] ident = "map" -> Ok(AttrMap(IF IsSome(args) THEN unquote(Unwrap(args)) ELSE ""))
          [] ident = "default" -> Default(parse_default(UnwrapOrDefault(args)))
          [] ident = "relation" ->
               Ok([tag |-> "Relation",
                   attr |-> Value(parse_relation_attribute(UnwrapOrDefault(args)))])
          [] OTHER -> Ok(AttrMap(ident \o ":" \o UnwrapOrDefault(args)))
  IN Match(pair.ident,
           IF IsSome(pair.args) THEN Some(trim_parens(Unwrap(pair.args))) ELSE None)

\* parse_model_attribute
parse_model_attribute(pair) ==
  LET Match(ident, args) ==
        CASE ident = "map" -> Ok(ModelMap(unquote(args)))
          [] ident = "unique" -> Ok(ModelUnique(parse_field_list(args)))
          [] ident = "index" -> Ok(ModelIndex(parse_field_list(args)))
          [] OTHER -> Ok(ModelMap(ident \o ":" \o args))
  IN Match(pair.ident, IF IsSome(pair.args) THEN trim_parens(Unwrap(pair.args)) ELSE "")

\* parse_scalar
parse_scalar(name) ==
  IF \E i \in 1..Len(ScalarIdents) : ScalarIdents[i] = name
  THEN Some(ScalarTypes[CHOOSE i \in 1..Len(ScalarIdents) : ScalarIdents[i] = name])
  ELSE None

\* parse_field_type
parse_field_type(pair) ==
  LET Build(ident, mods, scalar) ==
        IF IsSome(scalar) THEN Ok(Scalar(Unwrap(scalar), mods))
        ELSE Ok(Relation(RelationInfo(ident, mods, <<>>)))
  IN Build(pair.ident,
           [optional |-> \E i \in 1..Len(pair.tokens) : pair.tokens[i] = "optional",
            list |-> \E i \in 1..Len(pair.tokens) : pair.tokens[i] = "list"],
           parse_scalar(pair.ident))

\* the attribute loop of parse_field: the first failing attribute ends it
RECURSIVE ParseFieldAttributes(_, _, _)
ParseFieldAttributes(pairs, i, acc) ==
  IF i > Len(pairs) THEN Ok(acc)
  ELSE LET Push(r) ==
             IF ~r.ok THEN r ELSE ParseFieldAttributes(pairs, i + 1, Append(acc, Value(r)))
       IN Push(parse_field_attribute(pairs[i]))

\* parse_field
parse_field(pair) ==
  LET Build(field_type, attributes) ==
        IF ~field_type.ok THEN field_type
        ELSE IF ~attributes.ok THEN attributes
        ELSE Ok(Field(pair.name, Value(field_type), Value(attributes)))
  IN Build(parse_field_type(pair.type), ParseFieldAttributes(pair.attributes, 1, <<>>))

RECURSIVE ParseModelItems(_, _, _)
\* the item loop of parse_model going on after a failure and keeping the last one
RECURSIVE ParseModelItems_Last(_, _, _)
ParseModelItems_Last(items, i, acc) ==
  IF i > Len(items) THEN Ok(acc)
  ELSE LET Later(r, rest) == IF ~r.ok /\ rest.ok THEN r ELSE rest
           Push(r) ==
             Later(r, ParseModelItems_Last(items, i + 1,
                        IF ~r.ok THEN acc
                        ELSE IF items[i].rule = "field"
                        THEN [acc EXCEPT !.fields = Append(@, Value(r))]
                        ELSE [acc EXCEPT !.attributes = Append(@, Value(r))]))
       IN Push(IF items[i].rule = "field" THEN parse_field(items[i])
               ELSE parse_model_attribute(items[i]))

\* the item loop of parse_model
ParseModelItems(items, i, acc) ==
  IF i > Len(items) THEN Ok(acc)
  ELSE LET Push(r) ==
             IF ~r.ok THEN r
             ELSE ParseModelItems(items, i + 1,
                    IF items[i].rule = "field"
                    THEN [acc EXCEPT !.fields = Append(@, Value(r))]
                    ELSE [acc EXCEPT !.attributes = Append(@, Value(r))])
       IN Push(IF items[i].rule = "field" THEN parse_field(items[i])
               ELSE parse_model_attribute(items[i]))

\* parse_model
parse_model(pair) == ParseModelItems(pair.inner, 1, Model(pair.name, <<>>, <<>>))

\* the entry loop of parse_datasource
RECURSIVE DatasourceEntries(_, _, _)
DatasourceEntries(entries, i, block) ==
  IF i > Len(entries) THEN Ok(block)
  ELSE LET key == entries[i].key
           value_pair == entries[i].value
           v == Unwrap(value_pair)
       IN CASE key = "provider" ->
                 (IF ~parse_string(value_pair).ok THEN parse_string(value_pair)
                  ELSE DatasourceEntries(entries, i + 1,
                         [block EXCEPT !.provider = Value(parse_string(value_pair))]))
            [] key = "url" ->
                 (IF IsSome(value_pair) /\ v.rule = "env_call"
                  THEN DatasourceEntries(entries, i + 1,
                         [block EXCEPT !.url = Some(parse_env_call(v)),
                                       !.raw_url = Some("env(\"DATABASE_URL\")")])
                  ELSE IF IsSome(value_pair) /\ v.rule = "string"
                  THEN DatasourceEntries(entries, i + 1,
                         [block EXCEPT !.url = Some(unquote(v.text)),
                                       !.raw_url = Some(v.text)])
                  ELSE DatasourceEntries(entries, i + 1, block))
            [] key = "connectionLimit" ->
                 DatasourceEntries(entries, i + 1,
                   [block EXCEPT !.connection_limit =
                      IF IsSome(value_pair) THEN ParseU32(v.text) ELSE None])
            [] key = "poolTimeout" ->
                 DatasourceEntries(entries, i + 1,
                   [block EXCEPT !.pool_timeout_seconds =
                      IF IsSome(value_pair) THEN ParseU32(v.text) ELSE None])
            [] OTHER -> DatasourceEntries(entries, i + 1, block)

\* parse_datasource
parse_datasource(pair) ==
  DatasourceEntries(pair.inner, 1,
    [name |-> pair.name, provider |-> "postgresql", url |-> None, raw_url |-> None,
     connection_limit |-> None, pool_timeout_seconds |-> None])

\* the entry loop of parse_generator
RECURSIVE GeneratorEntries(_, _, _)
GeneratorEntries(entries, i, block) ==
  IF i > Len(entries) THEN Ok(block)
  ELSE LET key == entries[i].key
           value == entries[i].value
       IN CASE key = "provider" ->
                 (IF ~parse_string(value).ok THEN parse_string(value)
                  ELSE GeneratorEntries(entries, i + 1,
                         [block EXCEPT !.provider = Value(parse_string(value))]))
            [] key = "output" ->
                 GeneratorEntries(entries, i + 1,
                   [block EXCEPT !.output =
                      IF IsSome(value) THEN Some(unquote(Unwrap(value).text)) ELSE None])
            [] OTHER -> GeneratorEntries(entries, i + 1, block)

\* parse_generator
parse_generator(pair) ==
  GeneratorEntries(pair.inner, 1,
    [name |-> pair.name, provider |-> "petrol-client-rust", output |-> None])

\* the pair loop of parse_schema: the first failing conversion ends it
RECURSIVE ParsePairs(_, _, _)
ParsePairs(pairs, i, acc) ==
  IF i > Len(pairs) THEN Ok(acc)
  ELSE LET Push(r) ==
             IF ~r.ok THEN r
             ELSE ParsePairs(pairs, i + 1,
                    CASE pairs[i].rule = "datasource" -> [acc EXCEPT !.datasource = Some(Value(r))]
                      [] pairs[i].rule = "generator" -> [acc EXCEPT !.generator = Some(Value(r))]
                      [] pairs[i].rule = "model" -> [acc EXCEPT !.models = Append(@, Value(r))])
       IN Push(CASE pairs[i].rule = "datasource" -> parse_datasource(pairs[i])
                 [] pairs[i].rule = "generator" -> parse_generator(pairs[i])
                 [] pairs[i].rule = "model" -> parse_model(pairs[i]))

\* parse_schema with the generator block looked for before the datasource block
parse_schema_GeneratorFirst(input) ==
  LET Checked(schema, result) == IF ~result.ok THEN result ELSE Ok(schema)
      Built(schema) == Checked(schema, Schema_validate(schema))
      FromParts(parts) ==
        IF ~parts.ok THEN parts
        ELSE IF ~IsSome(Value(parts).generator)
        THEN Err("Validation", "missing generator block")
        ELSE IF ~IsSome(Value(parts).datasource)
        THEN Err("Validation", "missing datasource block")
        ELSE Built([datasource |-> Unwrap(Value(parts).datasource),
                    generator |-> Unwrap(Value(parts).generator),
                    models |-> Value(parts).models])
      FromPairs(pairs) ==
        IF ~pairs.ok THEN pairs
        ELSE FromParts(ParsePairs(Value(pairs), 1,
                         [datasource |-> None, generator |-> None, models |-> <<>>]))
  IN FromPairs(PetrolDslParser_parse(input))

\* parse_schema
parse_schema(input) ==
  LET Checked(schema, result) == IF ~result.ok THEN result ELSE Ok(schema)
      Built(schema) == Checked(schema, Schema_validate(schema))
      FromParts(parts) ==
        IF ~parts.ok THEN parts
        ELSE IF ~IsSome(Value(parts).datasource)
        THEN Err("Validation", "missing datasource block")
        ELSE IF ~IsSome(Value(parts).generator)
        THEN Err("Validation", "missing generator block")
        ELSE Built([datasource |-> Unwrap(Value(parts).datasource),
                    generator |-> Unwrap(Value(parts).generator),
                    models |-> Value(parts).models])
      FromPairs(pairs) ==
        IF ~pairs.ok THEN pairs
        ELSE FromParts(ParsePairs(Value(pairs), 1,
                         [datasource |-> None, generator |-> None, models |-> <<>>]))
  IN FromPairs(PetrolDslParser_parse(input))

(***************************************************************************)
(* The SQL DDL backend of petrol-core/src/sql.rs.                          *)
(*   SqlTable  [name, columns, primary_key, uniques]                       *)
(*   SqlColumn [name, sql_type, nullable, default]                         *)
(***************************************************************************)
\* SqlType::render
SqlType_render(t) ==
  CASE t = "SqlType::Serial" -> "SERIAL"
    [] t = "SqlType::BigSerial" -> "BIGSERIAL"
    [] t = "SqlType::Integer" -> "INTEGER"
    [] t = "SqlType::BigInt" -> "BIGINT"
    [] t = "SqlType::Float" -> "DOUBLE PRECISION"
    [] t = "SqlType::Decimal" -> "DECIMAL"
    [] t = "SqlType::Text" -> "TEXT"
    [] t = "SqlType::Boolean" -> "BOOLEAN"
    [] t = "SqlType::Timestamp" -> "TIMESTAMPTZ"
    [] t = "SqlType::Date" -> "DATE"
    [] t = "SqlType::Uuid" -> "UUID"
    [] t = "SqlType::Jsonb" -> "JSONB"
    [] t = "SqlType::Bytes" -> "BYTEA"

\* has_autoincrement
has_autoincrement(field) ==
  \E i \in 1..Len(field.attributes) :
     /\ field.attributes[i].tag = "Default"
     /\ field.attributes[i].value.tag = "AutoIncrement"

\* scalar_to_sql_type
scalar_to_sql_type(scalar, field) ==
  CASE scalar = "ScalarType::Int" ->
         (IF has_autoincrement(field) THEN "SqlType::Serial" ELSE "SqlType::Integer")
    [] scalar = "ScalarType::BigInt" ->
         (IF has_autoincrement(field) THEN "SqlType::BigSerial" ELSE "SqlType::BigInt")
    [] scalar = "ScalarType::Float" -> "SqlType::Float"
    [] scalar = "ScalarType::Decimal" -> "SqlType::Decimal"
    [] scalar = "ScalarType::String" -> "SqlType::Text"
    [] scalar = "ScalarType::Boolean" -> "SqlType::Boolean"
    [] scalar = "ScalarType::DateTime" -> "SqlType::Timestamp"
    [] scalar = "ScalarType::Date" -> "SqlType::Date"
    [] scalar = "ScalarType::Uuid" -> "SqlType::Uuid"
    [] scalar = "ScalarType::Json" -> "SqlType::Jsonb"
    [] scalar = "ScalarType::Bytes" -> "SqlType::Bytes"

\* default_clause: decided by the first Default attribute of the field
RECURSIVE DefaultClauseFrom(_, _)
DefaultClauseFrom(attributes, i) ==
  IF i > Len(attributes) THEN None
  ELSE IF attributes[i].tag = "Default"
  THEN LET value == attributes[i].value
       IN CASE value.tag = "AutoIncrement" -> None
            [] value.tag = "Uuid" -> Some("uuid_generate_v4()")
            [] value.tag = "Now" -> Some("now()")
            [] value.tag = "Boolean" -> Some(IF value.v THEN "true" ELSE "false")
            [] value.tag = "Int" -> Some(IntToString(value.v))
            [] value.tag = "Float" -> Some(FloatToString(value.v))
            [] value.tag = "String" -> Some("'" \o Replace(value.v, "'", "''") \o "'")
  ELSE DefaultClauseFrom(attributes, i + 1)

default_clause(field) == DefaultClauseFrom(field.attributes, 1)

\* SqlColumn::from_field
from_field(field) ==
  IF field.type.tag = "Scalar"
  THEN Some([name |-> column_name(field),
             sql_type |-> scalar_to_sql_type(field.type.scalar, field),
             nullable |-> field.type.modifiers.optional,
             default |-> default_clause(field)])
  ELSE None

\* SqlColumn::to_sql
SqlColumn_to_sql(column) ==
  "  \"" \o column.name \o "\" " \o SqlType_render(column.sql_type) \o
  (IF ~column.nullable THEN " NOT NULL" ELSE "") \o
  (IF IsSome(column.default) THEN " DEFAULT " \o Unwrap(column.default) ELSE "")

\* the field loop of SqlTable::from_model
RECURSIVE FromModelFields(_, _, _)
FromModelFields(fields, i, acc) ==
  IF i > Len(fields) THEN acc
  ELSE LET field == fields[i]
           a1 == IF IsSome(from_field(field))
                 THEN [acc EXCEPT !.columns = Append(@, Unwrap(from_field(field)))]
                 ELSE acc
           a2 == IF HasAttr(field, "Id")
                 THEN [a1 EXCEPT !.primary_key = Append(@, column_name(field))]
                 ELSE a1
           a3 == IF HasAttr(field, "Unique")
                 THEN [a2 EXCEPT !.uniques = Append(@, <<column_name(field)>>)]
                 ELSE a2
       IN FromModelFields(fields, i + 1, a3)

\* the model attribute loop of SqlTable::from_model
RECURSIVE FromModelAttributes(_, _, _)
FromModelAttributes(attributes, i, acc) ==
  IF i > Len(attributes) THEN acc
  ELSE IF attributes[i].tag = "Unique"
  THEN FromModelAttributes(attributes, i + 1,
                           [acc EXCEPT !.uniques = Append(@, attributes[i].fields)])
  ELSE FromModelAttributes(attributes, i + 1, acc)

\* SqlTable::from_model collecting the model-level groups before the fields
from_model_GroupsFirst(model) ==
  FromModelFields(model.fields, 1,
    FromModelAttributes(model.attributes, 1,
      [name |-> table_name(model), columns |-> <<>>, primary_key |-> <<>>,
       uniques |-> <<>>]))

\* SqlTable::from_model
from_model(model) ==
  FromModelAttributes(model.attributes, 1,
    FromModelFields(model.fields, 1,
      [name |-> table_name(model), columns |-> <<>>, primary_key |-> <<>>,
       uniques |-> <<>>]))

\* names.iter().map(|name| format!("\"{}\"", name)).collect().join(", ")
QuotedList(names) == Join([i \in 1..Len(names) |-> "\"" \o names[i] \o "\""], ", ")

\* the list column_fragments of SqlTable::to_sql
column_fragments(table) ==
  [i \in 1..Len(table.columns) |-> SqlColumn_to_sql(table.columns[i])] \o
  (IF Len(table.primary_key) > 0
   THEN <<"PRIMARY KEY (" \o QuotedList(table.primary_key) \o ")">>
   ELSE <<>>) \o
  [i \in 1..Len(table.uniques) |-> "UNIQUE (" \o QuotedList(table.uniques[i]) \o ")"]

\* SqlTable::to_sql
to_sql(table) ==
  "CREATE TABLE IF NOT EXISTS \"" \o table.name \o "\" (\n" \o
  Join(column_fragments(table), ",\n") \o "\n);\n"

\* schema_to_tables
schema_to_tables(schema) == [i \in 1..Len(schema.models) |-> from_model(schema.models[i])]

(***************************************************************************)
(* The code generator of petrol-codegen/src/lib.rs.  A TokenStream is the  *)
(* sequence of its tokens.                                                 *)
(***************************************************************************)
LowerCase == "abcdefghijklmnopqrstuvwxyz"
UpperCase == "ABCDEFGHIJKLMNOPQRSTUVWXYZ"
IsUpper(c) == Find(UpperCase, c, 1) > 0
ToLower(c) ==
  IF IsUpper(c) THEN SubSeq(LowerCase, Find(UpperCase, c, 1), Find(UpperCase, c, 1)) ELSE c

\* inflector's to_snake_case on identifiers: a capital that follows a small
\* letter or a digit starts a new word
RECURSIVE SnakeFrom(_, _)
SnakeFrom(s, i) ==
  IF i > Len(s) THEN ""
  ELSE LET c == SubSeq(s, i, i)
           prev == SubSeq(s, i - 1, i - 1)
       IN (IF i > 1 /\ IsUpper(c) /\ ~IsUpper(prev) /\ prev # "_" THEN "_" ELSE "") \o
          ToLower(c) \o SnakeFrom(s, i + 1)

to_snake_case(s) == SnakeFrom(s, 1)

\* the table `base` of scalar_rust_type
base_rust_type(scalar) ==
  CASE scalar = "ScalarType::Int" -> <<"i32">>
    [] scalar = "ScalarType::BigInt" -> <<"i64">>
    [] scalar = "ScalarType::Float" -> <<"f64">>
    [] scalar = "ScalarType::Decimal" -> <<"rust_decimal", "::", "Decimal">>
    [] scalar = "ScalarType::String" -> <<"String">>
    [] scalar = "ScalarType::Boolean" -> <<"bool">>
    [] scalar = "ScalarType::DateTime" ->
         <<"chrono", "::", "DateTime", "<", "chrono", "::", "Utc", ">">>
    [] scalar = "ScalarType::Date" -> <<"chrono", "::", "NaiveDate">>
    [] scalar = "ScalarType::Uuid" -> <<"uuid", "::", "Uuid">>
    [] scalar = "ScalarType::Json" -> <<"serde_json", "::", "Value">>
    [] scalar = "ScalarType::Bytes" -> <<"Vec", "<", "u8", ">">>

\* scalar_rust_type wrapping in Option before Vec
scalar_rust_type_OptionInside(field) ==
  IF field.type.tag = "Relation" THEN <<"panic">>
  ELSE LET base == base_rust_type(field.type.scalar)
           ty == IF field.type.modifiers.optional THEN <<"Option", "<">> \o base \o <<">">>
                 ELSE base
       IN IF field.type.modifiers.list THEN <<"Vec", "<">> \o ty \o <<">">> ELSE ty

\* scalar_rust_type; "panic" stands for the abort on a relation field
scalar_rust_type(field) ==
  IF field.type.tag = "Relation" THEN <<"panic">>
  ELSE LET base == base_rust_type(field.type.scalar)
           ty == IF field.type.modifiers.list THEN <<"Vec", "<">> \o base \o <<">">> ELSE base
       IN IF field.type.modifiers.optional THEN <<"Option", "<">> \o ty \o <<">">> ELSE ty

\* the tokens serde_attr of render_struct_field
serde_attr(field) ==
  IF column_name(field) # field.name
  THEN <<"#", "[", "serde", "(", "rename", "=", "\"" \o column_name(field) \o "\"", ")", "]">>
  ELSE <<>>

\* render_struct_field
render_struct_field(field) ==
  serde_attr(field) \o <<"pub", to_snake_case(field.name), ":">> \o scalar_rust_type(field)

\* #( #items ),* of quote!
RECURSIVE CommaSeparated(_, _)
CommaSeparated(items, i) ==
  IF i > Len(items) THEN <<>>
  ELSE items[i] \o (IF i < Len(items) THEN <<",">> ELSE <<>>) \o CommaSeparated(items, i + 1)

RECURSIVE Concat(_, _)
Concat(items, i) == IF i > Len(items) THEN <<>> ELSE items[i] \o Concat(items, i + 1)

IsScalarField(field) == field.type.tag = "Scalar"

\* render_model_module
render_model_module(model) ==
  LET fields == SelectSeq(model.fields, IsScalarField)
      struct_fields == [i \in 1..Len(fields) |-> render_struct_field(fields[i])]
  IN <<"pub", "mod", to_snake_case(model.name), "{", "use", "super", "::", "*", ";",
       "#", "[", "derive", "(", "Debug", ",", "Clone", ",", "Serialize", ",",
       "Deserialize", ")", "]", "pub", "struct", model.name, "{">> \o
     CommaSeparated(struct_fields, 1) \o <<"}", "}">>

\* the re-export pushed by generate_with_options for a model
re_export(model, module_name) ==
  <<"pub", "use", "self", "::", module_name, "::", to_snake_case(model.name), "::",
    model.name, ";">>

\* generate_with_options
generate_with_options(schema, module_name) ==
  IF Len(schema.models) = 0 THEN Err("Validation", "schema contains no models")
  ELSE Ok(<<"pub", "mod", module_name, "{", "use", "serde", "::", "{", "Deserialize", ",",
            "Serialize", "}", ";">> \o
          Concat([i \in 1..Len(schema.models) |-> render_model_module(schema.models[i])], 1) \o
          <<"}">> \o
          Concat([i \in 1..Len(schema.models) |-> re_export(schema.models[i], module_name)], 1))

\* generate: GenerateOptions::default() names the module petrol
generate(schema) == generate_with_options(schema, "petrol")

(***************************************************************************)
(* petrol-cli: introspection of a database (petrol pull).                  *)
(***************************************************************************)
\* map_sql_to_scalar
map_sql_to_scalar(data_type) ==
  CASE data_type \in {"integer", "int4"} -> Some("ScalarType::Int")
    [] data_type \in {"bigint", "int8"} -> Some("ScalarType::BigInt")
    [] data_type \in {"double precision", "float8"} -> Some("ScalarType::Float")
    [] data_type \in {"numeric", "decimal"} -> Some("ScalarType::Decimal")
    [] data_type \in {"text", "character varying", "varchar"} -> Some("ScalarType::String")
    [] data_type = "boolean" -> Some("ScalarType::Boolean")
    [] data_type \in {"timestamp with time zone", "timestamp without time zone"} ->
         Some("ScalarType::DateTime")
    [] data_type = "date" -> Some("ScalarType::Date")
    [] data_type = "uuid" -> Some("ScalarType::Uuid")
    [] data_type \in {"json", "jsonb"} -> Some("ScalarType::Json")
    [] data_type = "bytea" -> Some("ScalarType::Bytes")
    [] OTHER -> None

\* build_field
build_field(col) ==
  LET Build(scalar) ==
        IF ~IsSome(scalar) THEN Err("Report", "unsupported SQL type " \o col.data_type)
        ELSE Ok(Field(col.name,
                      Scalar(Unwrap(scalar), TypeModifiers(col.is_nullable, FALSE)),
                      (IF col.name = "id" THEN <<AttrId>> ELSE <<>>) \o
                      (IF IsSome(col.default) /\ Contains(Unwrap(col.default), "nextval")
                       THEN <<AttrDefault(AutoIncrement)>> ELSE <<>>)))
  IN Build(map_sql_to_scalar(col.data_type))

\* Inflector's to_class_case on the table names of the databases below
to_class_case(table) ==
  CASE table = "audit_log" -> "AuditLog"
    [] table = "shapes" -> "Shape"
    [] table = "users" -> "User"

\* build_model_from_columns: the first column that fails ends it
build_model_from_columns(table, columns) ==
  LET Collect(fields) ==
        IF \E i \in 1..Len(fields) : ~fields[i].ok
        THEN fields[Least({i \in 1..Len(fields) : ~fields[i].ok})]
        ELSE Ok(Model(to_class_case(table),
                      [i \in 1..Len(fields) |-> Value(fields[i])], <<>>))
  IN Collect([i \in 1..Len(columns) |-> build_field(columns[i])])

\* introspect_schema on the rows the query answers, which arrive ordered by
\* table name and ordinal position; the BTreeMap groups them by table
introspect_schema(rows, database_url) ==
  LET First(t) == Least({i \in 1..Len(rows) : rows[i].table_name = t})
      Count(t) == Cardinality({i \in 1..Len(rows) : rows[i].table_name = t})
      Column(row) == [name |-> row.column_name, data_type |-> row.data_type,
                      is_nullable |-> (row.is_nullable = "YES"),
                      default |-> row.column_default]
      Starts == {i \in 1..Len(rows) : i = First(rows[i].table_name)}
      Nth(k) == CHOOSE i \in Starts : Cardinality({j \in Starts : j < i}) = k - 1
      Collect(models) ==
        IF \E m \in 1..Len(models) : ~models[m].ok
        THEN models[Least({m \in 1..Len(models) : ~models[m].ok})]
        ELSE Ok([datasource |->
                   [name |-> "db", provider |-> "postgresql", url |-> Some(database_url),
                    raw_url |-> Some("\"" \o database_url \o "\""),
                    connection_limit |-> None, pool_timeout_seconds |-> None],
                 generator |-> GeneratorBlock_new("petrol-client-rust"),
                 models |-> [m \in 1..Len(models) |-> Value(models[m])]])
  IN Collect([k \in 1..Cardinality(Starts) |->
                build_model_from_columns(rows[Nth(k)].table_name,
                   [c \in 1..Count(rows[Nth(k)].table_name) |->
                      Column(rows[Nth(k) + c - 1])])])

(***************************************************************************)
(* Inputs.  A run starts from DSL text (the commands of petrol-cli, which  *)
(* all begin with parse_schema_file) or from a Schema value built through  *)
(* the public fields of the IR.                                            *)
(***************************************************************************)
\* DEFAULT_SCHEMA of petrol-cli, the starter schema written by `init`
DEFAULT_SCHEMA ==
  <<Block("datasource", "db",
      <<"  provider = \"postgresql\"", "  url      = env(\"DATABASE_URL\")">>),
    Block("generator", "client", <<"  provider = \"petrol-client-rust\"">>),
    Block("model", "User",
      <<"  id        Int      @id @default(autoincrement())",
        "  email     String   @unique",
        "  username  String?",
        "  createdAt DateTime @default(now())">>)>>

\* the starter schema with the defaults it cannot do without left out
SourceHead ==
  <<Block("datasource", "db",
      <<"  provider = \"postgresql\"", "  url      = env(\"DATABASE_URL\")">>),
    Block("generator", "client", <<"  provider = \"petrol-client-rust\"">>)>>

FieldLines ==
  <<"  id Int @id",
    "  id Int @id @default(autoincrement())",
    "  email String @unique",
    "  username String? @map(\"user_name\")",
    "  username String? @unique @map(\"user_name\")",
    "  nick String @db(\"VarChar\")",
    "  createdAt DateTime @default(now())",
    "  score Float @default(1.50)",
    "  owner Owner? @relation(fields: [ownerId], references: [id])",
    "  seq BigInt @id @default(autoincrement() )",
    "  age Int @id @default(abc)",
    "  rate Float @default(1.2.3)",
    "  tags String[] @default(rand() )",
    "  broken">>

\* the field lines of the models that also carry model attributes
AttributedLines ==
  <<"  id Int @id",
    "  email String @unique",
    "  username String? @map(\"user_name\")",
    "  rate Float @default(1.2.3)">>

ModelAttributeLines ==
  <<<<"  @@map(\"users\")">>,
    <<"  @@unique([username])">>,
    <<"  @@schema(\"auth\")">>,
    <<"  @@schema(\"auth\")", "  @@map(\"users\")">>,
    <<"  @@unique([id, email])", "  @@index([email])", "  @@unique([email])">>>>

\* a model block named User: field lines, then model attribute lines
SourceModel(fields, attributes) == Block("model", "User", fields \o attributes)

IdField == Field("id", Scalar("ScalarType::Int", TypeModifiers_default), <<AttrId>>)
NameField == Field("name", Scalar("ScalarType::String", TypeModifiers_default), <<>>)
ValidatePool == <<IdField, NameField>>
ModelNames == <<"User", "Post", "Tag", "Role">>

\* the ways to pick k different entries of a pool of n, in any order
Picks(k, n) == {idx \in [1..k -> 1..n] : \A a, b \in 1..k : a # b => idx[a] # idx[b]}

\* the field lists of at most MaxFields different fields of ValidatePool
ValidateBodies ==
  UNION {{[i \in 1..k |-> ValidatePool[idx[i]]] : idx \in Picks(k, Len(ValidatePool))} :
           k \in 0..MaxFields}

FieldPool ==
  <<Field("id", Scalar("ScalarType::Int", TypeModifiers_default),
          <<AttrId, AttrDefault(AutoIncrement)>>),
    Field("email", Scalar("ScalarType::String", TypeModifiers_default), <<AttrUnique>>),
    Field("username", Scalar("ScalarType::String", TypeModifiers(TRUE, FALSE)),
          <<AttrMap("user_name")>>),
    Field("code", Scalar("ScalarType::BigInt", TypeModifiers_default),
          <<AttrId, AttrUnique, AttrMap("code_no")>>),
    Field("owner", Relation(RelationInfo("Owner", TypeModifiers(TRUE, FALSE), <<>>)),
          <<AttrId, AttrRelation(<<"ownerId">>, <<"id">>)>>),
    Field("createdAt", Scalar("ScalarType::DateTime", TypeModifiers_default),
          <<AttrDefault(DefaultNow)>>),
    Field("tags", Scalar("ScalarType::String", TypeModifiers(TRUE, TRUE)),
          <<AttrUnique, AttrDefault(DefaultString("a'b"))>>)>>

ModelAttributePool ==
  <<<<>>,
    <<ModelMap("users")>>,
    <<ModelUnique(<<"email", "username">>)>>,
    <<ModelUnique(<<"username">>), ModelIndex(<<"email">>), ModelUnique(<<"email">>)>>,
    <<ModelIndex(<<"id">>), ModelMap("users"), ModelMap("people")>>>>

AttributeLists ==
  <<<<AttrId>>,
    <<AttrId, AttrDefault(AutoIncrement)>>,
    <<AttrDefault(AutoIncrement), AttrId>>,
    <<AttrId, AttrDefault(DefaultInt(7))>>,
    <<AttrId, AttrDefault(DefaultInt(7)), AttrDefault(AutoIncrement)>>,
    <<AttrId, AttrMap("col"), AttrUnique, AttrDefault(AutoIncrement)>>>>

Booleans == {FALSE, TRUE}

\* process environments: what std::env would answer for each variable name
Environments ==
  <<[DATABASE_URL |-> Some("postgres://localhost/app"),
     SHADOW_URL |-> Some("postgres://localhost/shadow")],
    [DATABASE_URL |-> Some("postgres://db.internal/prod"),
     SHADOW_URL |-> None]>>

\* values of the String fields of the IR
StringValues ==
  {"users", "user name", "a\"b", "say \"hi\"", "\"quoted", "C:\\dir", "a\\\"b"}

\* errors the database answers a statement with
DatabaseErrors == {"relation already exists", "connection closed"}

\* a row of information_schema.columns
Row(table, column, data_type, is_nullable, default) ==
  [table_name |-> table, column_name |-> column, data_type |-> data_type,
   is_nullable |-> is_nullable, column_default |-> default]

\* the rows of information_schema.columns of the databases petrol pull reads
Databases ==
  {<<>>,
   <<Row("users", "id", "integer", "NO", Some("nextval('users_id_seq'::regclass)")),
     Row("users", "email", "text", "NO", None)>>,
   <<Row("audit_log", "event", "character varying", "YES", None),
     Row("audit_log", "at", "timestamp with time zone", "NO", Some("now()"))>>,
   <<Row("audit_log", "event", "text", "YES", None),
     Row("users", "id", "bigint", "NO", None)>>,
   <<Row("shapes", "id", "integer", "NO", None),
     Row("shapes", "area", "polygon", "YES", None)>>,
   <<Row("users", "id", "uuid", "NO", Some("gen_random_uuid()")),
     Row("users", "tags", "jsonb", "YES", None),
     Row("users", "score", "float8", "NO", Some("0"))>>}

\* bodies of the blocks of a document, by the rule of the block
BlockBodies ==
  [datasource |->
     <<<<"provider = \"postgresql\"", "url = env(\"DATABASE_URL\")">>,
       <<"url = env(\"SHADOW_URL\")">>,
       <<"provider = \"mysql\"", "url = \"mysql://localhost/app\"",
         "connectionLimit = 10", "poolTimeout = 30">>,
       <<"provider = \"sqlite\"", "directUrl = \"file:dev.db\"">>,
       <<"url = 5432", "connectionLimit = \"ten\"">>>>,
   generator |->
     <<<<"provider = \"petrol-client-rust\"">>,
       <<"provider = \"petrol-client-rust\"", "output = \"./generated\"">>,
       <<"output = \"./generated\"", "previewFeatures = \"joins\"">>>>,
   model |->
     <<<<"id Int @id">>,
       <<"age Int @id @default(abc)">>,
       <<"id Int @id", "nick String @db(\"VarChar\") @map(\"nick_name\")">>,
       <<"id Int @id",
         "owner Owner? @relation(fields: [ownerId], references: [id], onDelete: Cascade)">>>>]

\* a Schema with the blocks DatasourceBlock::new and GeneratorBlock::new build
SchemaOf(models) ==
  [datasource |-> DatasourceBlock_new("postgresql"),
   generator |-> GeneratorBlock_new("petrol-client-rust"),
   models |-> models]

(***************************************************************************)
(* State.                                                                  *)
(***************************************************************************)
VARIABLES
  environment, \* the variables of the process environment, name -> Option value
  source,     \* Option: the DSL text handed to parse_schema
  parsed,     \* Option: the Result of parse_schema(source)
  schema,     \* Option: the Schema value in hand
  validated,  \* Option: the Result of schema.validate()
  tables,     \* Option: schema_to_tables(schema)
  statements, \* Option: the to_sql() text of each table
  generated,  \* Option: the Result of generate(schema)
  written,    \* Option: schema.to_string()
  reparsed,   \* Option: the Result of parse_schema(written)
  executed,   \* the statements apply_schema sent to the database, each with its result
  applied,    \* Option: the Result of apply_schema
  database,   \* Option: the rows of information_schema.columns of the database
  pulled      \* Option: the Result of introspect_schema

vars == <<environment, database, pulled, executed, applied, source, parsed, schema, validated, tables, statements, generated, written, reparsed>>

Blank ==
  /\ parsed = None /\ validated = None /\ tables = None /\ statements = None
  /\ generated = None /\ written = None /\ reparsed = None
  /\ executed = <<>> /\ applied = None /\ pulled = None

InitSource ==
  /\ environment = Environments[1] /\ database = None
  /\ \/ source = Some(DEFAULT_SCHEMA)
     \/ \E k \in 0..MaxFields : \E idx \in [1..k -> 1..Len(FieldLines)] :
          source = Some(SourceHead \o
                          <<SourceModel([i \in 1..k |-> FieldLines[idx[i]]], <<>>)>>)
     \/ \E k \in 1..MaxFields : \E idx \in [1..k -> 1..Len(AttributedLines)] :
          \E a \in 1..Len(ModelAttributeLines) :
             source = Some(SourceHead \o
                             <<SourceModel([i \in 1..k |-> AttributedLines[idx[i]]],
                                           ModelAttributeLines[a])>>)
  /\ schema = None
  /\ Blank

InitSchema ==
  /\ environment = Environments[1] /\ database = None
  /\ source = None
  /\ \/ \E n \in 0..MaxModels : \E bodies \in [1..n -> ValidateBodies] :
          schema = Some(SchemaOf([m \in 1..n |-> Model(ModelNames[m], bodies[m], <<>>)]))
     \/ \E k \in 1..MaxFields : \E idx \in Picks(k, Len(FieldPool)) :
          \E a \in 1..Len(ModelAttributePool) :
             schema = Some(SchemaOf(<<Model("User", [i \in 1..k |-> FieldPool[idx[i]]],
                                            ModelAttributePool[a])>>))
     \/ \E s \in 1..Len(ScalarTypes) : \E o \in Booleans : \E l \in Booleans :
          \E a \in 1..Len(AttributeLists) :
             schema = Some(SchemaOf(<<Model("Item",
                        <<Field("value", Scalar(ScalarTypes[s], TypeModifiers(o, l)),
                                AttributeLists[a])>>, <<>>)>>))
     \/ \E v \in StringValues :
          schema = Some([datasource |-> DatasourceBlock_new(v),
                         generator |-> [GeneratorBlock_new(v) EXCEPT !.output = Some(v)],
                         models |->
                           <<Model("User",
                               <<Field("id", Scalar("ScalarType::Int", TypeModifiers_default),
                                       <<AttrId, AttrMap(v)>>),
                                 Field("note", Scalar("ScalarType::String", TypeModifiers_default),
                                       <<AttrDefault(DefaultString(v))>>)>>,
                               <<ModelMap(v)>>)>>])
  /\ Blank

\* documents whose datasource, generator and model blocks vary or are missing,
\* converted under each environment
InitBlocks ==
  /\ \E e \in 1..Len(Environments) : environment = Environments[e]
  /\ database = None
  /\ \E d \in 0..Len(BlockBodies.datasource) : \E g \in 0..Len(BlockBodies.generator) :
       \E m \in 0..Len(BlockBodies.model) :
          source = Some((IF d = 0 THEN <<>>
                         ELSE <<Block("datasource", "db", BlockBodies.datasource[d])>>) \o
                        (IF g = 0 THEN <<>>
                         ELSE <<Block("generator", "client", BlockBodies.generator[g])>>) \o
                        (IF m = 0 THEN <<>>
                         ELSE <<SourceModel(BlockBodies.model[m], <<>>)>>))
  /\ schema = None
  /\ Blank

\* petrol pull: a database to introspect, no schema file read
InitDatabase ==
  /\ \E e \in 1..Len(Environments) : environment = Environments[e]
  /\ \E rows \in Databases : database = Some(rows)
  /\ source = None /\ schema = None
  /\ Blank

Init == InitSource \/ InitSchema \/ InitBlocks \/ InitDatabase

\* no backend has consumed the schema yet: a pass lowers it once
Unconsumed == tables = None /\ generated = None /\ written = None

\* parse_schema on the DSL text; its Schema is the one in hand from then on
ParseSchema ==
  /\ IsSome(source) /\ parsed = None
  /\ parsed' = Some(parse_schema(Unwrap(source)))
  /\ schema' = IF Unwrap(parsed').ok THEN Some(Value(Unwrap(parsed'))) ELSE None
  /\ UNCHANGED <<environment, database, pulled, executed, applied, source, validated, tables, statements, generated, written, reparsed>>

\* Schema::validate
Validate ==
  /\ IsSome(schema) /\ validated = None /\ Unconsumed
  /\ validated' = Some(Schema_validate(Unwrap(schema)))
  /\ UNCHANGED <<environment, database, pulled, executed, applied, source, parsed, schema, tables, statements, generated, written, reparsed>>

\* schema_to_tables, then to_sql on each table (the loop of apply_schema)
SchemaToSql ==
  /\ IsSome(schema) /\ Unconsumed
  /\ tables' = Some(schema_to_tables(Unwrap(schema)))
  /\ statements' = Some([i \in 1..Len(Unwrap(tables')) |-> to_sql(Unwrap(tables')[i])])
  /\ UNCHANGED <<environment, database, pulled, executed, applied, source, parsed, schema, validated, generated, written, reparsed>>

\* generate
Generate ==
  /\ IsSome(schema) /\ Unconsumed
  /\ generated' = Some(generate(Unwrap(schema)))
  /\ UNCHANGED <<environment, database, pulled, executed, applied, source, parsed, schema, validated, tables, statements, written, reparsed>>

\* Schema::to_string
to_string ==
  /\ IsSome(schema) /\ Unconsumed
  /\ written' = Some(Schema_fmt(Unwrap(schema)))
  /\ UNCHANGED <<environment, database, pulled, executed, applied, source, parsed, schema, validated, tables, statements, generated, reparsed>>

\* parse_schema on the text to_string wrote
Reparse ==
  /\ IsSome(written) /\ reparsed = None
  /\ reparsed' = Some(parse_schema(Unwrap(written)))
  /\ UNCHANGED <<environment, database, pulled, executed, applied, source, parsed, schema, validated, tables, statements, generated, written>>

\* the loop of apply_schema going on after a statement failed
Execute_KeepsGoing ==
  /\ IsSome(statements) /\ applied = None /\ Len(executed) < Len(Unwrap(statements))
  /\ \E result \in {Ok("done")} \cup {Err("Sqlx", e) : e \in DatabaseErrors} :
        /\ executed' = Append(executed, [sql |-> Unwrap(statements)[Len(executed) + 1],
                                         result |-> result])
        /\ applied' = IF result.ok \/ Len(executed') < Len(Unwrap(statements))
                      THEN None ELSE Some(result)
  /\ UNCHANGED <<environment, database, pulled, source, parsed, schema, validated, tables,
                 statements, generated, written, reparsed>>

\* one turn of the loop of apply_schema: the statement of the next table is
\* sent and awaited; the database runs it or answers an error, which `?` returns
Execute ==
  /\ IsSome(statements) /\ applied = None /\ Len(executed) < Len(Unwrap(statements))
  /\ \E result \in {Ok("done")} \cup {Err("Sqlx", e) : e \in DatabaseErrors} :
        /\ executed' = Append(executed, [sql |-> Unwrap(statements)[Len(executed) + 1],
                                         result |-> result])
        /\ applied' = IF result.ok THEN None ELSE Some(result)
  /\ UNCHANGED <<environment, database, pulled, source, parsed, schema, validated, tables,
                 statements, generated, written, reparsed>>

\* the end of the loop of apply_schema: Ok(())
Applied ==
  /\ IsSome(statements) /\ applied = None /\ Len(executed) = Len(Unwrap(statements))
  /\ applied' = Some(Ok("done"))
  /\ UNCHANGED <<environment, database, pulled, executed, source, parsed, schema, validated,
                 tables, statements, generated, written, reparsed>>

\* handle_pull: introspect_schema, then fs::write of schema.to_string()
Pull ==
  /\ IsSome(database) /\ pulled = None
  /\ pulled' = Some(introspect_schema(Unwrap(database), Unwrap(environment.DATABASE_URL)))
  /\ schema' = IF Unwrap(pulled').ok THEN Some(Value(Unwrap(pulled'))) ELSE None
  /\ written' = IF Unwrap(pulled').ok THEN Some(Schema_fmt(Value(Unwrap(pulled')))) ELSE None
  /\ UNCHANGED <<environment, database, executed, applied, source, parsed, validated,
                 tables, statements, generated, reparsed>>

Next ==
  \/ ParseSchema \/ Validate \/ SchemaToSql \/ Generate \/ to_string \/ Reparse
  \/ Execute \/ Applied \/ Pull

Spec == Init /\ [][Next]_vars

(***************************************************************************)
(* Properties.                                                             *)
(***************************************************************************)
TheSchema == Unwrap(schema)
IsEmptyModel(model) == Len(model.fields) = 0
IdFields(model) == {i \in 1..Len(model.fields) : HasAttr(model.fields[i], "Id")}
IsInvalidModel(model) == IsEmptyModel(model) \/ IdFields(model) = {}
InvalidModels(s) == {i \in 1..Len(s.models) : IsInvalidModel(s.models[i])}
EmptyFieldsError(model) ==
  <<"Validation", "model " \o model.name \o " must contain at least one field">>
MissingIdError(model) ==
  <<"Validation", "model " \o model.name \o " must declare an @id field">>
NoModelsError == <<"Validation", "schema must contain at least one model">>

StarterStatement ==
  "CREATE TABLE IF NOT EXISTS \"User\" (\n" \o
  "  \"id\" SERIAL NOT NULL,\n" \o
  "  \"email\" TEXT NOT NULL,\n" \o
  "  \"username\" TEXT,\n" \o
  "  \"createdAt\" TIMESTAMPTZ NOT NULL DEFAULT now(),\n" \o
  "PRIMARY KEY (\"id\"),\n" \o
  "UNIQUE (\"email\")\n);\n"

\* C1: parsing the starter schema succeeds (so it passed validation), and the
\* SQL backend emits for it the CREATE TABLE IF NOT EXISTS "User" statement with
\* the four column fragments, PRIMARY KEY ("id") and UNIQUE ("email").
C1_StarterSchemaCompiles ==
  (source = Some(DEFAULT_SCHEMA) /\ IsSome(parsed)) =>
     /\ Unwrap(parsed).ok
     /\ IsSome(schema)
     /\ IsSome(statements) => Unwrap(statements) = <<StarterStatement>>

\* the components of a Schema the round trip has to preserve
SameComponents(a, b) ==
  /\ a.datasource.name = b.datasource.name
  /\ a.datasource.provider = b.datasource.provider
  /\ a.datasource.connection_limit = b.datasource.connection_limit
  /\ a.datasource.pool_timeout_seconds = b.datasource.pool_timeout_seconds
  /\ a.generator = b.generator
  /\ a.models = b.models

\* C2: for every Schema S that passes validate(), parse_schema(S.to_string())
\* succeeds and returns a Schema equal to S in datasource name, provider and
\* limits, generator and models.
C2_RoundTrip ==
  (IsSome(reparsed) /\ Schema_validate(TheSchema).ok) =>
     /\ Unwrap(reparsed).ok
     /\ SameComponents(Value(Unwrap(reparsed)), TheSchema)

C4_FirstViolation ==
  IsSome(validated) =>
    LET s == TheSchema
        r == Unwrap(validated)
        first == CHOOSE i \in InvalidModels(s) : \A j \in InvalidModels(s) : i <= j
    IN IF Len(s.models) = 0 THEN r.err = NoModelsError
       ELSE IF InvalidModels(s) = {} THEN r.ok
       ELSE /\ ~r.ok
            /\ r.err = IF IsEmptyModel(s.models[first]) THEN EmptyFieldsError(s.models[first])
                       ELSE MissingIdError(s.models[first])

\* a validated schema whose first model lacks an Id and whose second is empty
C4_Witness ==
  /\ IsSome(validated)
  /\ Len(TheSchema.models) >= 2
  /\ ~IsEmptyModel(TheSchema.models[1]) /\ IdFields(TheSchema.models[1]) = {}
  /\ IsEmptyModel(TheSchema.models[2])
  /\ Unwrap(validated).err = MissingIdError(TheSchema.models[1])

\* the document cut after line n of its last block
Prefix(doc, n) ==
  [doc EXCEPT ![Len(doc)] = [@ EXCEPT !.body = SubSeq(@, 1, n)]]

\* the conversion of a document the grammar accepts, validation left out
Converted(doc) ==
  LET FromPairs(pairs) ==
        IF ~pairs.ok THEN pairs
        ELSE ParsePairs(Value(pairs), 1,
                        [datasource |-> None, generator |-> None, models |-> <<>>])
  IN FromPairs(PetrolDslParser_parse(doc))

\* C5: parse_schema returns either a Schema or one error, never both; the error
\* is the first one met (what follows the failing line does not change it, and a
\* validation error is returned only when conversion succeeded); every Schema
\* returned has a model, and a field and an Id field in every model.
C5_FirstErrorOnly ==
  (IsSome(source) /\ IsSome(parsed)) =>
    LET doc == Unwrap(source)
        r == Unwrap(parsed)
    IN /\ r.ok => /\ r.err = <<>> /\ schema = Some(Value(r))
                  /\ Len(Value(r).models) > 0
                  /\ \A i \in 1..Len(Value(r).models) :
                       /\ Len(Value(r).models[i].fields) > 0
                       /\ IdFields(Value(r).models[i]) # {}
       /\ ~r.ok => /\ r.val = <<>> /\ schema = None
       /\ (~r.ok /\ PetrolDslParser_parse(doc).ok) =>
            LET FirstError(cut) == ~cut.ok => r = cut
                OnlyInvalid(whole) ==
                  whole.ok => /\ \/ Value(whole).datasource = None
                                 \/ Value(whole).generator = None
                                 \/ Len(Value(whole).models) = 0
                                 \/ InvalidModels(Value(whole)) # {}
                              /\ r.err[1] = "Validation"
            IN /\ \A n \in 0..(IF Len(doc) = 0 THEN -1 ELSE Len(doc[Len(doc)].body)) :
                     FirstError(Converted(Prefix(doc, n)))
               /\ OnlyInvalid(Converted(doc))

\* a failed parse of a model whose first two lines both fail to convert, with
\* different errors, and that returned the error of the first
C5_Witness ==
  /\ IsSome(source) /\ IsSome(parsed) /\ ~Unwrap(parsed).ok
  /\ PetrolDslParser_parse(Unwrap(source)).ok
  /\ Len(Unwrap(source)[3].body) >= 2
  /\ LET doc == Unwrap(source)
         rest == [doc EXCEPT ![3] = [@ EXCEPT !.body = Tail(@)]]
     IN /\ ~Converted(Prefix(doc, 1)).ok
        /\ ~Converted(Prefix(rest, 1)).ok
        /\ Converted(Prefix(rest, 1)) # Converted(Prefix(doc, 1))
        /\ Unwrap(parsed) = Converted(Prefix(doc, 1))

ScalarFields(model) == SelectSeq(model.fields, IsScalarField)
HasAutoIncrementDefault(field) == AttrDefault(AutoIncrement) \in {field.attributes[i] : i \in 1..Len(field.attributes)}
IsIntegerField(field) == field.type.scalar \in {"ScalarType::Int", "ScalarType::BigInt"}

\* the line of a CREATE TABLE statement that holds its n-th fragment
FragmentLine(statement, n) == Split(statement, "\n")[n + 1]

\* C6: an Int or BigInt field carrying Default(AutoIncrement) anywhere in its
\* attribute list becomes a Serial or BigSerial column with default None and no
\* DEFAULT clause; without that attribute it becomes Integer or BigInt.
C6_AutoincrementPromotion ==
  IsSome(tables) =>
    \A m \in 1..Len(TheSchema.models) :
      \A j \in 1..Len(ScalarFields(TheSchema.models[m])) :
        LET field == ScalarFields(TheSchema.models[m])[j]
            column == Unwrap(tables)[m].columns[j]
            int == field.type.scalar = "ScalarType::Int"
        IN IsIntegerField(field) =>
             IF HasAutoIncrementDefault(field)
             THEN /\ column.sql_type = IF int THEN "SqlType::Serial" ELSE "SqlType::BigSerial"
                  /\ column.default = None
                  /\ ~Contains(FragmentLine(Unwrap(statements)[m], j), " DEFAULT ")
             ELSE column.sql_type = IF int THEN "SqlType::Integer" ELSE "SqlType::BigInt"

\* tokens occurs in stream as a run of consecutive tokens
Occurs(tokens, stream) ==
  \E p \in 1..(Len(stream) - Len(tokens) + 1) : SubSeq(stream, p, p + Len(tokens) - 1) = tokens

Wrapped(wrap, name, tokens) == IF wrap THEN <<name, "<">> \o tokens \o <<">">> ELSE tokens

\* the member the generator has to emit for a scalar field
ExpectedMember(field) ==
  <<"pub", to_snake_case(field.name), ":">> \o
  Wrapped(field.type.modifiers.optional, "Option",
    Wrapped(field.type.modifiers.list, "Vec", base_rust_type(field.type.scalar)))

\* C7: for every scalar type and every combination of optional and list, the
\* generated member type is the base type, inside Vec iff list, inside Option
\* (outermost) iff optional; the SQL column is nullable iff optional, whatever
\* list is, and NOT NULL is rendered iff the field is not optional.
C7_TypeModifierComposition ==
  \A m \in 1..(IF IsSome(schema) THEN Len(TheSchema.models) ELSE 0) :
    \A j \in 1..Len(ScalarFields(TheSchema.models[m])) :
      LET field == ScalarFields(TheSchema.models[m])[j] IN
      /\ (IsSome(generated) /\ Unwrap(generated).ok) =>
           \E end \in {",", "}"} :
              Occurs(ExpectedMember(field) \o <<end>>, Value(Unwrap(generated)))
      /\ IsSome(tables) =>
           /\ Unwrap(tables)[m].columns[j].nullable = field.type.modifiers.optional
           /\ Contains(FragmentLine(Unwrap(statements)[m], j), " NOT NULL")
                <=> ~field.type.modifiers.optional

\* code generated for an optional list field
C7_Witness ==
  /\ IsSome(generated) /\ Unwrap(generated).ok
  /\ \E i \in 1..Len(TheSchema.models[1].fields) :
       LET field == TheSchema.models[1].fields[i] IN
       /\ IsScalarField(field)
       /\ field.type.modifiers = TypeModifiers(TRUE, TRUE)
       /\ field.type.scalar = "ScalarType::DateTime"

\* the lines of the model block of the DSL text
SourceLines ==
  IF Len(Unwrap(source)) < 3 THEN <<>>
  ELSE [i \in 1..Len(Unwrap(source)[3].body) |-> Trim(Unwrap(source)[3].body[i])]
SourceHasLine(line) == \E i \in 1..Len(SourceLines) : SourceLines[i] = line

\* C8: a model parsed from DSL text with @@map("users") gets the table name
\* users while the generated struct and re-export keep the model name; a model
\* without @@map gets its own name as table name.
C8_TableNameMapping ==
  (IsSome(source) /\ IsSome(parsed) /\ Unwrap(parsed).ok) =>
    LET name == Unwrap(source)[3].name IN
    /\ (IsSome(tables) /\ SourceHasLine("@@map(\"users\")")) =>
         /\ Unwrap(tables)[1].name = "users"
         /\ StartsWith(Unwrap(statements)[1], "CREATE TABLE IF NOT EXISTS \"users\" (")
    /\ (IsSome(tables) /\ \A i \in 1..Len(SourceLines) : ~StartsWith(SourceLines[i], "@@map")) =>
         Unwrap(tables)[1].name = name
    /\ (IsSome(generated) /\ SourceHasLine("@@map(\"users\")")) =>
         /\ Occurs(<<"pub", "struct", name, "{">>, Value(Unwrap(generated)))
         /\ Occurs(<<"::", name, ";">>, Value(Unwrap(generated)))

RenameAnnotation(column) ==
  <<"#", "[", "serde", "(", "rename", "=", "\"" \o column \o "\"", ")", "]">>

\* C9: the field `username String? @map("user_name")` gets the SQL column
\* "user_name", no primary-key or unique clause names it username, its member is
\* username renamed to user_name; and a member carries a rename annotation iff
\* the column name of its field differs from the declared name.
C9_ColumnNameMapping ==
  (IsSome(source) /\ IsSome(parsed) /\ Unwrap(parsed).ok) =>
    /\ (IsSome(tables) /\ SourceHasLine("username String? @map(\"user_name\")")) =>
         LET table == Unwrap(tables)[1] IN
         /\ \E j \in 1..Len(table.columns) :
              /\ table.columns[j].name = "user_name"
              /\ StartsWith(FragmentLine(Unwrap(statements)[1], j), "  \"user_name\" TEXT")
         /\ \A k \in 1..Len(table.primary_key) : table.primary_key[k] # "username"
         /\ \A g \in 1..Len(table.uniques) :
              \A k \in 1..Len(table.uniques[g]) : table.uniques[g][k] # "username"
    /\ (IsSome(generated) /\ SourceHasLine("username String? @map(\"user_name\")")) =>
         Occurs(RenameAnnotation("user_name") \o
                <<"pub", "username", ":", "Option", "<", "String", ">">>,
                Value(Unwrap(generated)))
    /\ IsSome(generated) =>
         \A i \in 1..Len(ScalarFields(TheSchema.models[1])) :
           LET field == ScalarFields(TheSchema.models[1])[i] IN
           Occurs(<<"]", "pub", to_snake_case(field.name), ":">>, Value(Unwrap(generated)))
             <=> column_name(field) # field.name

IsIdField(field) == HasAttr(field, "Id")
IsUniqueField(field) == HasAttr(field, "Unique")
IsUniqueAttribute(a) == a.tag = "Unique"

\* the fragments a CREATE TABLE statement has to hold for a model
ExpectedFragments(model) ==
  LET scalars == ScalarFields(model)
      ids == SelectSeq(model.fields, IsIdField)
      uniqueFields == SelectSeq(model.fields, IsUniqueField)
      groups == SelectSeq(model.attributes, IsUniqueAttribute)
  IN [i \in 1..Len(scalars) |-> SqlColumn_to_sql(Unwrap(from_field(scalars[i])))] \o
     (IF Len(ids) > 0
      THEN <<"PRIMARY KEY (" \o QuotedList([i \in 1..Len(ids) |-> column_name(ids[i])]) \o ")">>
      ELSE <<>>) \o
     [i \in 1..Len(uniqueFields) |-> "UNIQUE (\"" \o column_name(uniqueFields[i]) \o "\")"] \o
     [i \in 1..Len(groups) |-> "UNIQUE (" \o QuotedList(groups[i].fields) \o ")"]

\* C10: a statement holds one column fragment per scalar field in field order
\* (none for a relation field), then one PRIMARY KEY clause iff a field carries
\* Id, listing the column names of those fields in field order, then one UNIQUE
\* clause per Unique field in field order, then one per model-level Unique
\* attribute in attribute order, nothing deduplicated.
C10_StatementShape ==
  IsSome(statements) =>
    \A m \in 1..Len(TheSchema.models) :
      Unwrap(statements)[m] =
        "CREATE TABLE IF NOT EXISTS \"" \o Unwrap(tables)[m].name \o "\" (\n" \o
        Join(ExpectedFragments(TheSchema.models[m]), ",\n") \o "\n);\n"

\* statements of a model with a relation field carrying Id, a scalar field
\* carrying Id and Unique, and two model-level Unique attributes
C10_Witness ==
  /\ IsSome(statements)
  /\ Len(TheSchema.models) = 1
  /\ LET model == TheSchema.models[1] IN
     /\ Len(model.fields) = 2
     /\ ~IsScalarField(model.fields[1]) /\ IsIdField(model.fields[1])
     /\ IsScalarField(model.fields[2]) /\ IsIdField(model.fields[2])
     /\ IsUniqueField(model.fields[2])
     /\ Len(SelectSeq(model.attributes, IsUniqueAttribute)) = 2
     /\ Len(Unwrap(tables)[1].uniques) = 3


\* the variable names an environment answers for
EnvNames == DOMAIN Environments[1]
\* the entries the grammar reads in the block of the source text under a rule
SourceEntries(rule) ==
  IF source = None THEN <<>>
  ELSE LET Of(blocks) ==
             IF blocks = {} THEN <<>>
             ELSE LET body == Unwrap(source)[Least(blocks)].body
                  IN [i \in 1..Len(body) |-> entry_rule(body[i])]
       IN Of({b \in 1..Len(Unwrap(source)) : Unwrap(source)[b].rule = rule})
\* the datasource block of the source text has the entry url = env("var")
HasEnvUrl(var) ==
  LET Has(entries) ==
        \E i \in 1..Len(entries) :
           /\ IsSome(entries[i]) /\ Unwrap(entries[i]).key = "url"
           /\ Unwrap(Unwrap(entries[i]).value).rule = "env_call"
           /\ Unwrap(Unwrap(entries[i]).value).inner = Some("\"" \o var \o "\"")
  IN Has(SourceEntries("datasource"))
\* the source text converted to a Schema
Converts == IsSome(parsed) /\ Unwrap(parsed).ok
ParsedSchema == Value(Unwrap(parsed))

\* C11: when the datasource block has the entry url = env("VAR") and the
\* environment sets VAR, the converted datasource's url is the value the
\* environment maps VAR to, never the name VAR.
C11_EnvResolution ==
  \A var \in EnvNames :
     (Converts /\ HasEnvUrl(var) /\ IsSome(environment[var])) =>
        ParsedSchema.datasource.url = environment[var]

\* the value text of the url entry of the datasource block to_string wrote
WrittenUrl ==
  LET ValueOf(entry) == Unwrap(Unwrap(entry).value).text
  IN ValueOf(entry_rule(Unwrap(written)[1].body[2]))
EnvCall(var) == "env(\"" \o var \o "\")"

\* C12: the text written for a Schema converted from url = env("VAR") has the
\* url entry env("VAR") with the same VAR, and the text written for a Schema
\* without a raw url has env("DATABASE_URL"); neither is the resolved url.
C12_EnvCallPreserved ==
  IsSome(written) =>
     /\ \A var \in EnvNames : (Converts /\ HasEnvUrl(var)) => WrittenUrl = EnvCall(var)
     /\ TheSchema.datasource.raw_url = None => WrittenUrl = EnvCall("DATABASE_URL")

\* lines whose attributes the converter does not recognize, and plain lines
UnrecognizedField == "nick String @db(\"VarChar\")"
UnrecognizedModelAttribute == "@@schema(\"auth\")"
PlainLines == {"id Int @id", "email String @unique"}
HasUnrecognized ==
  /\ IsSome(source)
  /\ SourceHasLine(UnrecognizedField) \/ SourceHasLine(UnrecognizedModelAttribute)
  /\ \A i \in 1..Len(SourceLines) :
        SourceLines[i] \in PlainLines \cup {UnrecognizedField, UnrecognizedModelAttribute}
AttributesOf(s) ==
  [m \in 1..Len(s.models) |->
     <<[f \in 1..Len(s.models[m].fields) |-> s.models[m].fields[f].attributes],
       s.models[m].attributes>>]

\* C13: a field or model attribute the converter does not recognize is never
\* rejected; it is kept as Map("<identifier>:<raw argument text>"), and writing
\* the Schema and parsing the text again gives the same attribute values.
C13_UnrecognizedAttributeKept ==
  (HasUnrecognized /\ IsSome(parsed)) =>
     /\ Converts \/ ~SourceHasLine("id Int @id")
     /\ (Converts /\ SourceHasLine(UnrecognizedField)) =>
           \E f \in 1..Len(ParsedSchema.models[1].fields) :
              /\ ParsedSchema.models[1].fields[f].name = "nick"
              /\ ParsedSchema.models[1].fields[f].attributes = <<AttrMap("db:\"VarChar\"")>>
     /\ (Converts /\ SourceHasLine(UnrecognizedModelAttribute)) =>
           ParsedSchema.models[1].attributes = <<ModelMap("schema:\"auth\"")>>
     /\ (Converts /\ IsSome(reparsed)) =>
           /\ Unwrap(reparsed).ok
           /\ AttributesOf(Value(Unwrap(reparsed))) = AttributesOf(ParsedSchema)

\* the values a converted datasource or generator block holds, as text
BlockValues(block) ==
  {block.provider} \cup
  {Unwrap(block[k]) : k \in {k \in DOMAIN block \cap {"url", "raw_url", "output"} :
                                IsSome(block[k])}} \cup
  {NatToString(Unwrap(block[k])) :
     k \in {k \in DOMAIN block \cap {"connection_limit", "pool_timeout_seconds"} :
               IsSome(block[k])}}
\* every entry the source text gives a block has its value among the block's
Retains(block, entries) ==
  \A i \in 1..Len(entries) :
     LET Kept(value) == \/ value.text \in BlockValues(block)
                        \/ unquote(value.text) \in BlockValues(block)
                        \/ /\ value.rule = "env_call"
                           /\ parse_env_call(value) \in BlockValues(block)
     IN Kept(Unwrap(Unwrap(entries[i]).value))
CascadeRelation ==
  "owner Owner? @relation(fields: [ownerId], references: [id], onDelete: Cascade)"
RelationValues(attribute) ==
  {attribute.fields[i] : i \in 1..Len(attribute.fields)} \cup
  {attribute.references[i] : i \in 1..Len(attribute.references)}

\* C14: the converter fails closed: a source text either is rejected or every
\* value of its datasource and generator entries, every connectionLimit and
\* poolTimeout number and every argument of a relation attribute is held by
\* the Schema it returns.
C14_FailClosed ==
  Converts =>
     /\ Retains(ParsedSchema.datasource, SourceEntries("datasource"))
     /\ Retains(ParsedSchema.generator, SourceEntries("generator"))
     /\ SourceHasLine(CascadeRelation) =>
           \E f \in 1..Len(ParsedSchema.models[1].fields) :
              \E a \in 1..Len(ParsedSchema.models[1].fields[f].attributes) :
                 LET Holds(attribute) ==
                       /\ attribute.tag = "Relation"
                       /\ "Cascade" \in RelationValues(attribute.attr)
                 IN Holds(ParsedSchema.models[1].fields[f].attributes[a])

\* what the database has been sent so far agrees with the schema in hand
ExecutedInOrder ==
  /\ executed # <<>> => IsSome(statements)
  /\ IsSome(statements) =>
        /\ Len(Unwrap(statements)) = Len(TheSchema.models)
        /\ Len(executed) <= Len(Unwrap(statements))
        /\ \A i \in 1..Len(executed) :
              /\ executed[i].sql = to_sql(from_model(TheSchema.models[i]))
              /\ StartsWith(executed[i].sql, "CREATE TABLE")
              /\ i < Len(executed) => executed[i].result.ok
  /\ IsSome(applied) =>
        IF Unwrap(applied).ok
        THEN /\ Len(executed) = Len(TheSchema.models)
             /\ \A i \in 1..Len(executed) : executed[i].result.ok
        ELSE /\ executed # <<>>
             /\ executed[Len(executed)].result = Unwrap(applied)
\* a step sends at most the next statement, takes nothing back, and sends
\* nothing once apply_schema has returned
ExecutedOnce ==
  /\ Len(executed) <= Len(executed') /\ Len(executed') <= Len(executed) + 1
  /\ SubSeq(executed', 1, Len(executed)) = executed
  /\ IsSome(applied) => executed' = executed /\ applied' = applied

\* C15: apply_schema sends exactly one CREATE TABLE statement per model, in
\* declaration order, each after the one before it completed; when a statement
\* fails it returns that error as the database gave it, sends no later
\* statement, and the statements already run stay run.
C15_ApplySchemaSequential == []ExecutedInOrder /\ [][ExecutedOnce]_vars
\* C15 witness: the second of two statements failed after the first one ran
C15_Witness ==
  /\ IsSome(applied) /\ ~Unwrap(applied).ok
  /\ Len(Unwrap(statements)) = 2 /\ Len(executed) = 2 /\ executed[1].result.ok

\* the file petrol pull wrote
PulledFile == IsSome(database) /\ IsSome(pulled) /\ IsSome(written)

\* C16: petrol pull validates the Schema it built from the column metadata
\* before it writes it: a file is written only for a Schema that passes
\* validate, so never for a database without tables or for one with a table
\* that has no column named id.
C16_PullValidates ==
  PulledFile => Schema_validate(TheSchema).ok

\* the elements of a set of positions, in increasing order
Ordered(S) == [k \in 1..Cardinality(S) |-> CHOOSE i \in S : Cardinality({j \in S : j < i}) = k - 1]
\* the token at a distance from each occurrence of a token, in stream order
TokensAt(stream, token, distance) ==
  LET At(positions) == [k \in 1..Len(positions) |-> stream[positions[k] + distance]]
  IN At(Ordered({p \in 1..Len(stream) : stream[p] = token}))
SnakeNames(items) == [i \in 1..Len(items) |-> to_snake_case(items[i].name)]
RelationFields(s) ==
  UNION {{s.models[m].fields[f] : f \in {f \in 1..Len(s.models[m].fields) :
                                            ~IsScalarField(s.models[m].fields[f])}} :
         m \in 1..Len(s.models)}

HasDefault(tag) ==
  /\ Converts
  /\ \E f \in 1..Len(ParsedSchema.models[1].fields) :
        \E a \in 1..Len(ParsedSchema.models[1].fields[f].attributes) :
           LET Is(attribute) == attribute.tag = "Default" /\ attribute.value.tag = tag
           IN Is(ParsedSchema.models[1].fields[f].attributes[a])
\* the conversion failed with an error of the kind whose message has the text
FailsNaming(kind, text) ==
  /\ ~Unwrap(parsed).ok
  /\ Unwrap(parsed).err[1] = kind /\ Contains(Unwrap(parsed).err[2], text)
\* the model block of the source text is the line of an id field and the line
IsIdAnd(line) == SourceLines = <<"id Int @id", line>>

\* C18: the argument of @default is classified by the first rule that fits:
\* it ends in () (autoincrement, uuid, now, anything else Unsupported), it
\* starts with a quote (String), it is true or false (Boolean), it has a dot
\* (Float), else Int; a float or int that does not parse is a Validation
\* error naming the text; @default(autoincrement()) and @default(now()) as
\* written in a field line reach the first rule.
C18_DefaultClassification ==
  IsSome(parsed) =>
     /\ SourceLines = <<"id Int @id @default(autoincrement())">> => HasDefault("AutoIncrement")
     /\ SourceLines = <<"seq BigInt @id @default(autoincrement() )">> =>
           HasDefault("AutoIncrement")
     /\ IsIdAnd("createdAt DateTime @default(now())") => HasDefault("Now")
     /\ IsIdAnd("tags String[] @default(rand() )") => FailsNaming("Unsupported", "rand()")
     /\ IsIdAnd("score Float @default(1.50)") => HasDefault("Float")
     /\ IsIdAnd("rate Float @default(1.2.3)") => FailsNaming("Validation", "1.2.3")
     /\ SourceLines = <<"age Int @id @default(abc)">> => FailsNaming("Validation", "abc")

\* the strings a Schema holds where the serializer writes them in quotes
StringsOf(s) ==
  {s.datasource.provider, s.generator.provider} \cup
  (IF IsSome(s.generator.output) THEN {Unwrap(s.generator.output)} ELSE {}) \cup
  UNION {{s.models[m].attributes[a].name :
            a \in {a \in 1..Len(s.models[m].attributes) :
                     s.models[m].attributes[a].tag = "Map"}} \cup
         UNION {{s.models[m].fields[f].attributes[a].name :
                   a \in {a \in 1..Len(s.models[m].fields[f].attributes) :
                            s.models[m].fields[f].attributes[a].tag = "Map"}} \cup
                {s.models[m].fields[f].attributes[a].value.v :
                   a \in {a \in 1..Len(s.models[m].fields[f].attributes) :
                            /\ s.models[m].fields[f].attributes[a].tag = "Default"
                            /\ s.models[m].fields[f].attributes[a].value.tag = "String"}} :
                f \in 1..Len(s.models[m].fields)} :
         m \in 1..Len(s.models)}
\* the serializer's quoting: "\"{}\""
Quote(v) == "\"" \o v \o "\""

\* C19: unquote is the inverse of the serializer's quoting: for every string
\* the serializer writes in quotes (@map, @@map, a String default, provider,
\* output), whatever quotes or backslashes it holds, unquote of the quoted
\* text is the string.
C19_UnquoteInverse ==
  IsSome(written) => \A v \in StringsOf(TheSchema) : unquote(Quote(v)) = v

\* the source text has no block under the rule
LacksBlock(rule) ==
  IsSome(source) /\ \A b \in 1..Len(Unwrap(source)) : Unwrap(source)[b].rule # rule

ColumnNames(table) == {table.columns[j].name : j \in 1..Len(table.columns)}

\* C21: in every table from_model builds, every name of primary_key and of
\* every unique group is the name of one of the table's columns, also when an
\* Id or Unique attribute sits on a relation field and when a model-level
\* unique group names a field that has a Map attribute.
C21_KeysNameColumns ==
  IsSome(tables) =>
     \A t \in 1..Len(Unwrap(tables)) :
        LET Closed(table) ==
              /\ \A k \in 1..Len(table.primary_key) : table.primary_key[k] \in ColumnNames(table)
              /\ \A g \in 1..Len(table.uniques) :
                    \A k \in 1..Len(table.uniques[g]) :
                       table.uniques[g][k] \in ColumnNames(table)
        IN Closed(Unwrap(tables)[t])

\* C22: an attribute the converter does not recognize never changes a
\* physical name: a field parsed from a line without @map has its declared
\* name as column name, a model parsed without @@map has its own name as
\* table name, and where a real @map or @@map stands beside unrecognized
\* attributes the physical name is its value, whatever the order.
C22_UnrecognizedKeepsNames ==
  Converts =>
     LET Named(model) ==
           /\ \A i \in 1..Len(model.fields) :
                 /\ ~Contains(SourceLines[i], "@map(") =>
                       column_name(model.fields[i]) = model.fields[i].name
                 /\ Contains(SourceLines[i], "@map(\"nick_name\")") =>
                       column_name(model.fields[i]) = "nick_name"
           /\ (\A i \in 1..Len(SourceLines) : ~StartsWith(SourceLines[i], "@@map")) =>
                 table_name(model) = model.name
           /\ SourceHasLine("@@map(\"users\")") => table_name(model) = "users"
     IN Named(ParsedSchema.models[1])

============================================================================
